---- MODULE Spec2Model ----
(***************************************************************************)
(* A model of app/services/craw4ai_pool.py (CrawlerPool): the worker pool, *)
(* the on-disk content cache with its in-memory presence index, and the    *)
(* crawl / crawl_fastest coroutines.  One action is one stretch of code    *)
(* that asyncio runs without suspending (from one await to the next); the  *)
(* fetch engine (AsyncWebCrawler), the file system and the party that may  *)
(* cancel a caller are the environment.                                    *)
(***************************************************************************)
EXTENDS Integers, Sequences, FiniteSets, TLC

(* ---------------------------------------------------------------- bounds *)
NumCallers == 2
MaxCrawlers == 2
MaxUrls == 2
MaxCount == 2
MaxMinWordCount == 3
MaxTextLen == 2
MaxTime == 3
MaxLookups == 5

(* ------------------------------------------------------ program constants *)
batch_size == 10

(* RecommendationService.__init__ (lines 76-77) sets _cache_ttl to ten     *)
(* days in seconds and _max_cache_size to 500; both are scaled down here.  *)
_cache_ttl == 2
_max_cache_size == 3

Callers == 1..NumCallers
Urls == {"a", "b"}
UrlOrder == <<"a", "b">>

(* Page texts the fetch engine may return: a character is "w" (a letter)   *)
(* or " " (white space): one word of two letters, and two words.           *)
Contents == { <<"w", "w">>, <<"w", " ", "w">> }

Min(a, b) == IF a <= b THEN a ELSE b
Max(a, b) == IF a >= b THEN a ELSE b

(* ------------------------------------------------------- pure functions *)

(* hashlib.md5(url.encode()).hexdigest(): the digests of "a" to "l".       *)
md5(url) ==
    CASE url = "a" -> "0cc175b9c0f1b6a831c399e269772661"
      [] url = "b" -> "92eb5ffee6ae2fec3ad71c777531578f"
      [] url = "c" -> "4a8a08f09d37b73795649038408b5f33"
      [] url = "d" -> "8277e0910d750195b448797616e091ad"
      [] url = "e" -> "e1671797c52e15f763380b45e841ec32"
      [] url = "f" -> "8fa14cdd754f91cc6554c9e71929cce7"
      [] url = "g" -> "b2f5ff47436671b6e533d8dc3614845d"
      [] url = "h" -> "2510c39011c5be704182423e3a695e91"
      [] url = "i" -> "865c0c0b4ab0e063e5caa3387c1a8741"
      [] url = "j" -> "363b122c528f54df4a0446b6bab05515"
      [] url = "k" -> "8ce4b16b22b58894aa86c421e8759df3"
      [] url = "l" -> "2db95e8e1a9267b7a1188556b2013b33"

(* f"{url_hash}.json" *)
cache_filename(url_hash) == <<url_hash, ".json">>

Files == { cache_filename(md5(u)) : u \in Urls }

(* len(markdown_content.split()): the maximal runs of non-space characters *)
SplitCount(s) ==
    Cardinality({ i \in 1..Len(s) : s[i] # " " /\ (i = 1 \/ s[i-1] = " ") })

(* len(cache_data["markdown"]): the characters of the stored text          *)
CharCount(s) == Len(s)

(* {url: md5(url) for url in urls}: the keys, in first-occurrence order    *)
RECURSIVE url_hash_map(_)
url_hash_map(urls) ==
    IF urls = <<>> THEN <<>>
    ELSE LET init == url_hash_map(SubSeq(urls, 1, Len(urls) - 1))
             last == urls[Len(urls)]
         IN  IF \E i \in 1..Len(init) : init[i] = last THEN init
             ELSE Append(init, last)

Range(s) == { s[i] : i \in 1..Len(s) }

(* A fault: the list is not cut. *)
PySliceWhole(s, n) == s

(* s[:n] of Python, n negative included *)
PySlice(s, n) ==
    IF n >= 0 THEN SubSeq(s, 1, Min(n, Len(s)))
    ELSE SubSeq(s, 1, Max(0, Len(s) + n))

(* A fault: the text is written between the quotes as it is. *)
json_dumps_raw(s) == s

(* A fault: line 260 without the sort. *)
Unsorted(s) == s

(* list.sort(key=word_count, reverse=True): stable, larger counts first    *)
RECURSIVE SortByWordCount(_)
SortByWordCount(s) ==
    IF s = <<>> THEN <<>>
    ELSE LET init == SortByWordCount(SubSeq(s, 1, Len(s) - 1))
             x == s[Len(s)]
             k == Cardinality({ i \in 1..Len(init) :
                                  init[i].word_count >= x.word_count })
         IN  SubSeq(init, 1, k) \o <<x>> \o SubSeq(init, k + 1, Len(init))

(* --------------------------------------------------------- JSON strings *)

(* The characters of the texts that go through the JSON codec: a letter,   *)
(* the letter n, a space, a double quote, a backslash and a line feed.     *)
Chars == {"w", "n", " ", "\"", "\\", "\n"}

(* json.dump (line 513) of a str: the text between double quotes, with the *)
(* double quote, the backslash and the line feed escaped.                  *)
RECURSIVE json_dumps_chars(_)
json_dumps_chars(s) ==
    IF s = <<>> THEN <<>>
    ELSE LET ch == s[1]
             esc == CASE ch = "\"" -> <<"\\", "\"">>
                      [] ch = "\\" -> <<"\\", "\\">>
                      [] ch = "\n" -> <<"\\", "n">>
                      [] OTHER -> <<ch>>
         IN  esc \o json_dumps_chars(Tail(s))

json_dumps(s) == <<"\"">> \o json_dumps_chars(s) \o <<"\"">>

(* json.loads (lines 292, 296) of a string literal from position i on:     *)
(* the text up to the closing double quote, escapes resolved; not ok when  *)
(* the literal is not closed, goes on after its end, or has a bad escape.  *)
RECURSIVE json_loads_chars(_, _, _)
json_loads_chars(t, i, acc) ==
    IF i > Len(t) THEN [ok |-> FALSE, value |-> <<>>]
    ELSE IF t[i] = "\"" THEN [ok |-> i = Len(t), value |-> acc]
    ELSE IF t[i] = "\n" THEN [ok |-> FALSE, value |-> <<>>]
    ELSE IF t[i] = "\\"
         THEN IF i + 1 > Len(t) THEN [ok |-> FALSE, value |-> <<>>]
              ELSE IF t[i + 1] = "n"
                   THEN json_loads_chars(t, i + 2, Append(acc, "\n"))
              ELSE IF t[i + 1] \in {"\"", "\\"}
                   THEN json_loads_chars(t, i + 2, Append(acc, t[i + 1]))
              ELSE [ok |-> FALSE, value |-> <<>>]
    ELSE json_loads_chars(t, i + 1, Append(acc, t[i]))

json_loads(t) ==
    IF t = <<>> \/ t[1] # "\"" THEN [ok |-> FALSE, value |-> <<>>]
    ELSE json_loads_chars(t, 2, <<>>)

(* ----------------------------------------------------------- file system *)
NoFile == [kind |-> "absent", url |-> "", markdown |-> <<>>]
Corrupt == [kind |-> "corrupt", url |-> "", markdown |-> <<>>]
Record(url, markdown_content) ==
    [kind |-> "record", url |-> url, markdown |-> json_dumps(markdown_content)]

(* ------------------------------------------------------------ variables *)
VARIABLES
    _pool,               \* PoolManager._pool: 0 for None, else the pool, named
                         \* by the caller whose call built it
    n_crawlers,          \* CrawlerPool.n_crawlers
    crawler_run_config,  \* CrawlerPool.crawler_run_config
    initialized,         \* CrawlerPool.initialized
    crawlers,            \* CrawlerPool.crawlers (worker ids, in creation order)
    available_crawlers,  \* CrawlerPool.available_crawlers
    lock,                \* CrawlerPool.lock: 0 free, else the caller holding it
    cache_files_map,     \* CrawlerPool.cache_files_map (its keys)
    disk,                \* the files of cache_dir
    create,              \* the _create_crawler tasks of each caller's init()
    call,                \* each caller's coroutine: position and locals
    task,                \* the crawler.arun tasks of each caller's _crawl_urls
    _category_products_cache,  \* RecommendationService: key -> (results, timestamp)
    _cache_access_history,     \* RecommendationService: keys, least recent first
    now,                 \* the clock read by time()
    lookup,              \* each caller's get_category_products coroutine
    served               \* the lookups that have returned: key, hit, time,
                         \* and whether the list returned was empty

vars == <<_pool, n_crawlers, crawler_run_config, initialized, crawlers, available_crawlers, lock,
          cache_files_map, disk, create, call, task,
          _category_products_cache, _cache_access_history, now, lookup,
          served>>

poolVars == <<_pool, n_crawlers, crawler_run_config, initialized, crawlers,
              available_crawlers, lock>>
cacheVars == <<cache_files_map, disk>>
crawlVars == <<poolVars, cacheVars, create, call, task>>
catalogVars == <<_category_products_cache, _cache_access_history, now, lookup,
                 served>>

NoTask == [st |-> "none", kind |-> "none", markdown |-> <<>>]

IdleCall ==
    [pc |-> "idle", op |-> "none", urls |-> <<>>, count |-> 0,
     min_word_count |-> 0, url_hash_map |-> <<>>,
     valid_results |-> <<>>, all_results |-> <<>>,
     urls_to_crawl |-> <<>>, urls_with_cache |-> <<>>, i |-> 0, j |-> 0,
     loaded |-> <<>>, crawler |-> 0, holding |-> FALSE, needed_count |-> 0,
     new_valid |-> <<>>, new_all |-> <<>>, pending |-> {}, started |-> <<>>,
     processed |-> <<>>, write_failed |-> {}, cached_at_start |-> {},
     batch_tasks |-> {}, exc |-> "", ret |-> <<>>, ret_type |-> "list"]

(* A get_category_products coroutine: position, key, value returned,       *)
(* whether it has queried the catalog client, and whether the client's     *)
(* request failed.                                                         *)
IdleLookup ==
    [pc |-> "idle", cache_key |-> "", ret |-> <<>>, queried |-> FALSE,
     failed |-> FALSE]

(* RecommendationService.__init__ (line 75): the cache is an empty dict.   *)
EmptyCache == [k \in {} |-> [results |-> <<>>, timestamp |-> 0]]

(* _default_crawler_run_config (lines 95-111): the configuration of a pool *)
(* built without one; of its fields, stream decides what arun_many returns. *)
_default_crawler_run_config == [stream |-> TRUE]

(* The configurations a pool may be built with (line 41).                  *)
Configs == [stream : BOOLEAN]

(* __init__ (lines 39-57): no worker yet, the lock free, and the presence  *)
(* index holding the name of every file found in cache_dir.                *)
InitCrawl(dirs) ==
    /\ _pool = 0
    /\ n_crawlers \in 1..MaxCrawlers
    /\ crawler_run_config \in Configs
    /\ initialized = FALSE
    /\ crawlers = <<>>
    /\ available_crawlers = <<>>
    /\ lock = 0
    /\ disk \in dirs
    /\ cache_files_map = { f \in DOMAIN disk : disk[f].kind # "absent" }
    /\ create = [c \in Callers |-> [k \in 1..MaxCrawlers |-> "none"]]
    /\ call = [c \in Callers |-> IdleCall]
    /\ task = [c \in Callers |-> [u \in Urls |-> NoTask]]

(* RecommendationService.__init__ (recommendation.py, lines 75-78).        *)
InitCatalog ==
    /\ _category_products_cache = EmptyCache
    /\ _cache_access_history = <<>>
    /\ now = 0
    /\ lookup = [c \in Callers |-> IdleLookup]
    /\ served = <<>>

(* Both services as constructed.                                           *)
InitWith(dirs) == InitCrawl(dirs) /\ InitCatalog

(* Every directory content: per URL no file, an unreadable file, or a      *)
(* record of an earlier fetch.                                             *)
CacheDirs ==
    [Files -> {NoFile, Corrupt}
              \cup { Record(u, m) : u \in Urls, m \in Contents }]

Init ==
    /\ InitWith({ d \in CacheDirs :
                    \A u \in Urls : LET r == d[cache_filename(md5(u))]
                                    IN r.kind = "record" => r.url = u })
    /\ crawler_run_config = _default_crawler_run_config

(* ------------------------------------------------------------------ init *)
Set(c, rec) == call' = [call EXCEPT ![c] = rec]

(* Lines 182-183 and 224-225: `if not self.initialized: await self.init()`, *)
(* then the body.  init() (lines 123-132) returns at once on an            *)
(* initialised pool and otherwise gathers n_crawlers _create_crawler tasks. *)
Enter(c, rec) ==
    IF initialized
    THEN /\ Set(c, [rec EXCEPT !.pc = IF rec.op = "crawl" THEN "checkout" ELSE "body"])
         /\ UNCHANGED create
    ELSE /\ Set(c, [rec EXCEPT !.pc = "init"])
         /\ create' = [create EXCEPT ![c] =
                [k \in 1..MaxCrawlers |-> IF k <= n_crawlers THEN "creating" ELSE "none"]]

(* crawl_fastest(urls, count, min_word_count) is called: lines 224-229.    *)
crawl_fastest(c, urls, count, min_word_count) ==
    /\ call[c].pc = "idle"
    /\ Enter(c, [IdleCall EXCEPT !.op = "crawl_fastest", !.urls = urls,
                                 !.count = count, !.min_word_count = min_word_count])
    /\ UNCHANGED <<poolVars, cacheVars, task>>
    /\ UNCHANGED catalogVars

(* crawl(urls) is called: lines 182-184.                                   *)
crawl(c, urls) ==
    /\ call[c].pc = "idle"
    /\ Enter(c, [IdleCall EXCEPT !.op = "crawl", !.urls = urls])
    /\ UNCHANGED <<poolVars, cacheVars, task>>
    /\ UNCHANGED catalogVars

(* PoolManager.get_pool (pool_manager.py, lines 31-34).  With _pool None   *)
(* initialize_pool (lines 18-27) builds the CrawlerPool, assigns it to     *)
(* _pool and only then awaits its init(), which gathers the creation of    *)
(* the workers; with _pool set, get_pool returns it at once.               *)
get_pool(c) ==
    /\ call[c].pc = "idle"
    /\ IF _pool = 0
       THEN /\ _pool' = c
            /\ Set(c, [IdleCall EXCEPT !.op = "get_pool", !.pc = "init"])
            /\ create' = [create EXCEPT ![c] =
                   [k \in 1..MaxCrawlers |-> IF k <= n_crawlers THEN "creating" ELSE "none"]]
       ELSE /\ Set(c, [IdleCall EXCEPT !.op = "get_pool", !.pc = "done",
                                       !.ret = <<_pool>>])
            /\ UNCHANGED <<_pool, create>>
    /\ UNCHANGED <<n_crawlers, crawler_run_config, initialized, crawlers,
                   available_crawlers, lock, cacheVars, task>>
    /\ UNCHANGED catalogVars

(* _create_crawler (lines 143-150): the browser starts, and under the lock *)
(* the worker joins crawlers and available_crawlers.                       *)
_create_crawler(c, k) ==
    /\ create[c][k] = "creating"
    /\ lock = 0
    /\ LET crawler == Len(crawlers) + 1
       IN  /\ crawlers' = Append(crawlers, crawler)
           /\ available_crawlers' = Append(available_crawlers, crawler)
    /\ create' = [create EXCEPT ![c][k] = "done"]
    /\ UNCHANGED <<_pool, n_crawlers, crawler_run_config, initialized, lock, cacheVars, call, task>>
    /\ UNCHANGED catalogVars

(* _create_crawler (lines 153-155): the browser fails to start; the error  *)
(* is logged and raised again.                                             *)
_create_crawler_raises(c, k) ==
    /\ create[c][k] = "creating"
    /\ create' = [create EXCEPT ![c][k] = "failed"]
    /\ UNCHANGED <<poolVars, cacheVars, call, task>>
    /\ UNCHANGED catalogVars

(* Where init() returns to: line 187 of crawl, line 228 of crawl_fastest,  *)
(* or, through initialize_pool, line 34 of pool_manager.py, where get_pool *)
(* returns cls._pool.                                                      *)
AfterInit(r) ==
    CASE r.op = "crawl" -> [r EXCEPT !.pc = "checkout"]
      [] r.op = "get_pool" -> [r EXCEPT !.pc = "done", !.ret = <<_pool>>]
      [] OTHER -> [r EXCEPT !.pc = "body"]

(* A fault: gather(..., return_exceptions=True): failures are not raised. *)
init_ignoring_failures(c) ==
    /\ call[c].pc = "init"
    /\ \A k \in 1..n_crawlers : create[c][k] \in {"done", "failed"}
    /\ initialized' = TRUE
    /\ Set(c, AfterInit(call[c]))
    /\ UNCHANGED <<_pool, n_crawlers, crawler_run_config, crawlers, available_crawlers, lock, cacheVars, create, task>>
    /\ UNCHANGED catalogVars

(* init (lines 132-135): gather returns once every task is done.           *)
init(c) ==
    /\ call[c].pc = "init"
    /\ \A k \in 1..n_crawlers : create[c][k] = "done"
    /\ initialized' = TRUE
    /\ Set(c, AfterInit(call[c]))
    /\ UNCHANGED <<_pool, n_crawlers, crawler_run_config, crawlers, available_crawlers, lock, cacheVars, create, task>>
    /\ UNCHANGED catalogVars

(* init (line 132): gather raises the first failure of a task to the       *)
(* caller, whose call ends with it (lines 183, 225); the other tasks go on. *)
init_raises(c) ==
    /\ call[c].pc = "init"
    /\ \E k \in 1..n_crawlers : create[c][k] = "failed"
    /\ Set(c, [call[c] EXCEPT !.pc = "raised", !.exc = "init"])
    /\ UNCHANGED <<poolVars, cacheVars, create, task>>
    /\ UNCHANGED catalogVars

(* ---------------------------------------------------------- cached phase *)

(* _process_cached_url (lines 281-323): (result, word_count), or None when *)
(* the name is not in the index or the file cannot be read and parsed.     *)
NoResult ==
    [url |-> "", success |-> FALSE, is_none |-> TRUE, markdown |-> <<>>,
     word_count |-> 0, from_cache |-> FALSE]

(* A fault: an unreadable record loads as a result without text. *)
CorruptAsEmpty(url, url_hash) ==
    LET cache_data == disk[cache_filename(url_hash)]
        markdown == json_loads(cache_data.markdown)
    IN  IF cache_filename(url_hash) \notin cache_files_map THEN NoResult
        ELSE [url |-> url, success |-> TRUE, is_none |-> FALSE,
              markdown |-> IF markdown.ok THEN markdown.value ELSE <<>>,
              word_count |-> IF markdown.ok THEN CharCount(markdown.value) ELSE 0,
              from_cache |-> TRUE]

(* A fault: the cache is never hit. *)
CacheMiss(url, url_hash) == NoResult

_process_cached_url(url, url_hash) ==
    LET cache_filename_ == cache_filename(url_hash)
        cache_data == disk[cache_filename_]
        markdown == json_loads(cache_data.markdown)
    IN  IF cache_filename_ \notin cache_files_map THEN NoResult
        ELSE IF cache_data.kind # "record" \/ ~markdown.ok THEN NoResult
        ELSE [url |-> url, success |-> TRUE, is_none |-> FALSE,
              markdown |-> markdown.value,
              word_count |-> CharCount(markdown.value),
              from_cache |-> TRUE]

(* The URL has a name in the index and a record that reads and parses     *)
(* (lines 283-300).                                                        *)
LoadsFromCache(url) ==
    /\ cache_filename(md5(url)) \in cache_files_map
    /\ disk[cache_filename(md5(url))].kind = "record"
    /\ json_loads(disk[cache_filename(md5(url))].markdown).ok

(* _process_cached_urls (lines 375, 384): enough valid results to stop.    *)
CachedEnough(valid_results, count) == Len(valid_results) >= count

(* _process_cached_urls (lines 343-359): the partition of the URLs by the  *)
(* presence index, and the tasks of the first batch (lines 361-363).       *)
_process_cached_urls(c) ==
    /\ call[c].pc = "body"
    /\ LET m == url_hash_map(call[c].urls)
           cached(u) == cache_filename(md5(u)) \in cache_files_map
           urls_with_cache == SelectSeq(m, cached)
           uncached(u) == ~cached(u)
           urls_to_crawl == SelectSeq(m, uncached)
       IN  Set(c, [call[c] EXCEPT
                     !.url_hash_map = m,
                     !.urls_with_cache = urls_with_cache,
                     !.urls_to_crawl = urls_to_crawl,
                     !.cached_at_start = { u \in Urls : LoadsFromCache(u) },
                     !.i = 0, !.j = 1,
                     !.batch_tasks = Range(SubSeq(urls_with_cache, 1,
                                             Min(batch_size, Len(urls_with_cache)))),
                     !.pc = IF urls_with_cache = <<>> THEN "decide" ELSE "cached"])
    /\ UNCHANGED <<poolVars, cacheVars, create, task>>
    /\ UNCHANGED catalogVars

(* _process_cached_urls (lines 367-386): `await task` of the next task of  *)
(* the batch returns and its result is classified.  batch_tasks holds the  *)
(* load tasks created and not awaited yet; the tasks a break leaves behind *)
(* are neither awaited nor cancelled.                                      *)
_process_cached_urls_await(c) ==
    /\ call[c].pc = "cached"
    /\ LET r == call[c]
           batch == SubSeq(r.urls_with_cache, r.i + 1,
                           Min(r.i + batch_size, Len(r.urls_with_cache)))
           url == batch[r.j]
           result == _process_cached_url(url, md5(url))
           all_results == IF result.is_none THEN r.all_results
                          ELSE Append(r.all_results, result)
           valid_results ==
               IF ~result.is_none /\ result.word_count >= r.min_word_count
               THEN Append(r.valid_results, result) ELSE r.valid_results
           urls_to_crawl == IF result.is_none THEN Append(r.urls_to_crawl, url)
                            ELSE r.urls_to_crawl
           \* line 375: the break out of the batch
           break == /\ ~result.is_none
                    /\ result.word_count >= r.min_word_count
                    /\ CachedEnough(valid_results, r.count)
           batch_over == break \/ r.j = Len(batch)
           \* line 385: the break out of the batches, or no batch is left
           over == batch_over /\ (CachedEnough(valid_results, r.count)
                                  \/ r.i + batch_size >= Len(r.urls_with_cache))
           \* lines 357-363: the tasks of the next batch are created
           next_batch == SubSeq(r.urls_with_cache, r.i + batch_size + 1,
                                Min(r.i + 2 * batch_size, Len(r.urls_with_cache)))
       IN  Set(c, [r EXCEPT
                     !.all_results = all_results,
                     !.valid_results = valid_results,
                     !.urls_to_crawl = urls_to_crawl,
                     !.loaded = Append(r.loaded, url),
                     !.batch_tasks = (r.batch_tasks \ {url}) \cup
                                     (IF batch_over /\ ~over THEN Range(next_batch)
                                      ELSE {}),
                     !.i = IF batch_over /\ ~over THEN r.i + batch_size ELSE r.i,
                     !.j = IF batch_over THEN 1 ELSE r.j + 1,
                     !.pc = IF over THEN "decide" ELSE "cached"])
    /\ UNCHANGED <<poolVars, cacheVars, create, task>>
    /\ UNCHANGED catalogVars

(* A fault: the lists are returned whole, without [:count]. *)
ReturnedUnsliced(valid_results, all_results, count) ==
    IF Len(valid_results) >= count THEN valid_results
    ELSE SortByWordCount(all_results)

(* A fault: no fall-back to all_results (lines 256-261). *)
ReturnedValidOnly(valid_results, all_results, count) ==
    PySlice(valid_results, count)

(* crawl_fastest (lines 238-243, 256-261): the list returned.              *)
Returned(valid_results, all_results, count) ==
    IF Len(valid_results) >= count THEN PySlice(valid_results, count)
    ELSE PySlice(SortByWordCount(all_results), count)

(* A fault: line 238 with > for >=. *)
NothingToCrawlStrict(valid_results, count, urls_to_crawl) ==
    Len(valid_results) > count \/ urls_to_crawl = <<>>

(* crawl_fastest (line 238): enough valid results or nothing to crawl.     *)
NothingToCrawl(valid_results, count, urls_to_crawl) ==
    Len(valid_results) >= count \/ urls_to_crawl = <<>>

(* crawl_fastest (lines 238-246): return from the cached phase, or go on   *)
(* to check a worker out.                                                  *)
crawl_fastest_cached(c) ==
    /\ call[c].pc = "decide"
    /\ LET r == call[c]
       IN  IF NothingToCrawl(r.valid_results, r.count, r.urls_to_crawl)
           THEN Set(c, [r EXCEPT !.pc = "done",
                          !.ret = Returned(r.valid_results, r.all_results, r.count)])
           ELSE Set(c, [r EXCEPT !.pc = "checkout"])
    /\ UNCHANGED <<poolVars, cacheVars, create, task>>
    /\ UNCHANGED catalogVars

(* ------------------------------------------------------------ the pool *)

(* _get_available_crawler (lines 159-165): the lock is acquired (pc        *)
(* "checkout") or the sleep of line 162 is over (pc "getter_sleep", the    *)
(* lock still held).  With a worker available its last one is popped and   *)
(* the lock released; without, the caller sleeps 0.1 s inside the          *)
(* `async with` block, that is, with the lock.                             *)
_get_available_crawler(c) ==
    /\ call[c].pc \in {"checkout", "getter_sleep"}
    /\ lock = (IF call[c].pc = "checkout" THEN 0 ELSE c)
    /\ IF available_crawlers # <<>>
       THEN LET crawler == available_crawlers[Len(available_crawlers)]
            IN  /\ available_crawlers' =
                       SubSeq(available_crawlers, 1, Len(available_crawlers) - 1)
                /\ lock' = 0
                /\ Set(c, [call[c] EXCEPT !.crawler = crawler, !.holding = TRUE,
                             !.pc = IF call[c].op = "crawl" THEN "arun_many"
                                    ELSE "crawl_urls"])
       ELSE /\ lock' = c
            /\ Set(c, [call[c] EXCEPT !.pc = "getter_sleep"])
            /\ UNCHANGED available_crawlers
    /\ UNCHANGED <<_pool, n_crawlers, crawler_run_config, initialized, crawlers, cacheVars, create, task>>
    /\ UNCHANGED catalogVars

(* _release_crawler (lines 169-170), reached from the finally blocks       *)
(* (lines 200-201, 262-264): under the lock the worker is appended to      *)
(* available_crawlers; then the call returns or raises.                    *)
_release_crawler(c) ==
    /\ call[c].pc = "finish"
    /\ lock = 0
    /\ available_crawlers' = Append(available_crawlers, call[c].crawler)
    /\ Set(c, [call[c] EXCEPT !.holding = FALSE,
                 !.pc = IF call[c].exc # "" THEN "raised" ELSE "done"])
    /\ UNCHANGED <<_pool, n_crawlers, crawler_run_config, initialized, crawlers, lock, cacheVars, create, task>>
    /\ UNCHANGED catalogVars

(* ------------------------------------------------------------ race phase *)

(* A fault: no more fetch tasks than the pool has workers.                 *)
StartOnePerWorker(c) ==
    /\ call[c].pc = "crawl_urls"
    /\ LET r == call[c]
           urls == SubSeq(r.urls_to_crawl, 1, Min(n_crawlers, Len(r.urls_to_crawl)))
       IN  /\ task' = [task EXCEPT ![c] = [u \in Urls |->
                          IF u \in Range(urls)
                          THEN [st |-> "running", kind |-> "none", markdown |-> <<>>]
                          ELSE task[c][u]]]
           /\ Set(c, [r EXCEPT !.needed_count = r.count - Len(r.valid_results),
                        !.started = urls,
                        !.pending = Range(urls),
                        !.pc = "race"])
    /\ UNCHANGED <<poolVars, cacheVars, create>>
    /\ UNCHANGED catalogVars

(* A fault: the URLs found in the cache are fetched as well.               *)
StartEveryUrl(c) ==
    /\ call[c].pc = "crawl_urls"
    /\ LET r == call[c]
           urls == r.url_hash_map
       IN  /\ task' = [task EXCEPT ![c] = [u \in Urls |->
                          IF u \in Range(urls)
                          THEN [st |-> "running", kind |-> "none", markdown |-> <<>>]
                          ELSE task[c][u]]]
           /\ Set(c, [r EXCEPT !.needed_count = r.count - Len(r.valid_results),
                        !.started = urls,
                        !.pending = Range(urls),
                        !.pc = "race"])
    /\ UNCHANGED <<poolVars, cacheVars, create>>
    /\ UNCHANGED catalogVars

(* _crawl_urls (lines 408-422): one crawler.arun task per URL.             *)
_crawl_urls(c) ==
    /\ call[c].pc = "crawl_urls"
    /\ LET r == call[c]
       IN  /\ task' = [task EXCEPT ![c] = [u \in Urls |->
                          IF u \in Range(r.urls_to_crawl)
                          THEN [st |-> "running", kind |-> "none", markdown |-> <<>>]
                          ELSE task[c][u]]]
           /\ Set(c, [r EXCEPT !.needed_count = r.count - Len(r.valid_results),
                        !.started = r.urls_to_crawl,
                        !.pending = Range(r.urls_to_crawl),
                        !.pc = "race"])
    /\ UNCHANGED <<poolVars, cacheVars, create>>
    /\ UNCHANGED catalogVars

(* The fetch engine: a crawler.arun task ends with a result carrying text  *)
(* ("ok"), with a result without text ("fail": success = False, markdown   *)
(* None) or with an exception ("raise").                                   *)
arun(c, url, kind, markdown) ==
    /\ call[c].pc = "race"
    /\ task[c][url].st = "running"
    /\ kind = "ok" \/ markdown = <<>>
    /\ task' = [task EXCEPT ![c][url] =
                   [st |-> "done", kind |-> kind, markdown |-> markdown]]
    /\ UNCHANGED <<poolVars, cacheVars, create, call>>
    /\ UNCHANGED catalogVars

(* The fetch engine: a task asked to cancel ends with CancelledError.      *)
arun_cancelled(c, url) ==
    /\ call[c].pc = "drain"
    /\ task[c][url].st = "cancelling"
    /\ task' = [task EXCEPT ![c][url].st = "cancelled"]
    /\ UNCHANGED <<poolVars, cacheVars, create, call>>
    /\ UNCHANGED catalogVars

(* The fetch engine: a task asked to cancel runs to its end all the same;  *)
(* what it ends with is dropped by line 480.                               *)
arun_completes_late(c, url) ==
    /\ call[c].pc = "drain"
    /\ task[c][url].st = "cancelling"
    /\ task' = [task EXCEPT ![c][url].st = "done"]
    /\ UNCHANGED <<poolVars, cacheVars, create, call>>
    /\ UNCHANGED catalogVars

(* A fault: the record is written and the index not told (line 516). *)
CacheResultNoIndex(cache, url, markdown_content, written) ==
    IF written = "written"
    THEN [files_map |-> cache.files_map,
          disk |-> [cache.disk EXCEPT ![cache_filename(md5(url))] =
                                          Record(url, markdown_content)]]
    ELSE cache

(* A fault: the index is told before the record is written. *)
CacheResultIndexFirst(cache, url, markdown_content, written) ==
    [files_map |-> cache.files_map \cup {cache_filename(md5(url))},
     disk |-> CASE written = "written" ->
                     [cache.disk EXCEPT ![cache_filename(md5(url))] =
                                            Record(url, markdown_content)]
                [] written = "partial" ->
                     [cache.disk EXCEPT ![cache_filename(md5(url))] = Corrupt]
                [] OTHER -> cache.disk]

(* What becomes of a write (lines 512-513): the record is written; open()  *)
(* fails and the directory is as before; or json.dump fails after open()   *)
(* has truncated the file, which is left without a readable record.        *)
WriteOutcomes == {"written", "failed", "partial"}

(* _cache_result (lines 496-521): the record is written and then its name  *)
(* added to the index; a failure to write is logged and leaves the index   *)
(* alone.                                                                  *)
_cache_result(cache, url, markdown_content, written) ==
    CASE written = "written" ->
            [files_map |-> cache.files_map \cup {cache_filename(md5(url))},
             disk |-> [cache.disk EXCEPT ![cache_filename(md5(url))] =
                                             Record(url, markdown_content)]]
      [] written = "partial" ->
            [cache EXCEPT !.disk[cache_filename(md5(url))] = Corrupt]
      [] OTHER -> cache

(* A fault: no quality gate at line 456. *)
IsValidAlways(word_count, min_word_count) == TRUE

(* _crawl_urls (line 456): the quality gate.                               *)
IsValid(word_count, min_word_count) == word_count >= min_word_count

(* _crawl_urls (lines 433-466): one completed task is processed.  st holds *)
(* valid_results, all_results, the cache and the urls processed so far.    *)
ProcessTask(st, url, t, min_word_count, written) ==
    IF t.kind = "raise" THEN [st EXCEPT !.seen = Append(st.seen, url)]   \* line 465
    ELSE LET markdown_content == t.markdown
             word_count == IF t.kind = "ok" THEN SplitCount(markdown_content) ELSE 0
             result == [url |-> url, success |-> t.kind = "ok", is_none |-> FALSE,
                        markdown |-> markdown_content, word_count |-> word_count,
                        from_cache |-> FALSE]
         IN  [valid |-> IF IsValid(word_count, min_word_count)
                        THEN Append(st.valid, result) ELSE st.valid,
              all |-> Append(st.all, result),
              cache |-> IF t.kind = "ok" /\ markdown_content # <<>>
                        THEN _cache_result(st.cache, url, markdown_content, written)
                        ELSE st.cache,
              seen |-> Append(st.seen, url),
              write_failed |-> IF t.kind = "ok" /\ markdown_content # <<>>
                                  /\ written # "written"
                               THEN st.write_failed \cup {url} ELSE st.write_failed]

(* A fault: the exception of a task ends the processing of `done`. *)
RECURSIVE ProcessDoneUntilRaise(_, _, _, _, _)
ProcessDoneUntilRaise(order, k, st, c, written) ==
    IF \/ k > Len(order)
       \/ Len(st.valid) >= call[c].needed_count
       \/ k > 1 /\ task[c][order[k - 1]].kind = "raise"
    THEN st
    ELSE ProcessDoneUntilRaise(order, k + 1,
                               ProcessTask(st, order[k], task[c][order[k]],
                                           call[c].min_word_count, written[order[k]]),
                               c, written)

(* _crawl_urls (lines 432-464): the tasks of `done`, in the order the set  *)
(* yields them, until enough valid results are there.                      *)
RECURSIVE ProcessDone(_, _, _, _, _)
ProcessDone(order, k, st, c, written) ==
    IF k > Len(order) \/ Len(st.valid) >= call[c].needed_count THEN st
    ELSE ProcessDone(order, k + 1,
                     ProcessTask(st, order[k], task[c][order[k]],
                                 call[c].min_word_count, written[order[k]]),
                     c, written)

Perms(S) == { s \in [1..Cardinality(S) -> S] :
                \A i, j \in 1..Cardinality(S) : i # j => s[i] # s[j] }

(* crawl_fastest (lines 252-261): the results of the race join those of    *)
(* the cached phase and the list to return is chosen.                      *)
AfterRace(r, new_valid, new_all) ==
    [r EXCEPT !.new_valid = new_valid, !.new_all = new_all,
              !.valid_results = r.valid_results \o new_valid,
              !.all_results = r.all_results \o new_all,
              !.ret = Returned(r.valid_results \o new_valid,
                               r.all_results \o new_all, r.count),
              !.pc = "finish"]

(* A fault: no task is cancelled. *)
CancelNone(c, pending) == {}

(* _crawl_urls (lines 473-475): which of the pending tasks get cancel().   *)
ToCancel(c, pending) == { u \in pending : task[c][u].st # "done" }

(* _crawl_urls (lines 424-475): asyncio.wait returns with the tasks that   *)
(* are done; they are processed; then the loop waits again, or the pending *)
(* tasks are cancelled.                                                    *)
_crawl_urls_wait(c) ==
    /\ call[c].pc = "race"
    /\ LET r == call[c]
           done == { u \in r.pending : task[c][u].st = "done" }
           pending == r.pending \ done
       IN  /\ done # {}
           /\ \E order \in Perms(done), written \in [done -> WriteOutcomes] :
                LET st == ProcessDone(order, 1,
                              [valid |-> r.new_valid, all |-> r.new_all,
                               cache |-> [files_map |-> cache_files_map, disk |-> disk],
                               seen |-> <<>>, write_failed |-> r.write_failed],
                              c, written)
                    again == pending # {} /\ Len(st.valid) < r.needed_count
                    r2 == [r EXCEPT !.pending = pending,
                                    !.new_valid = st.valid, !.new_all = st.all,
                                    !.processed = r.processed \o st.seen,
                                    !.write_failed = st.write_failed]
                IN  /\ cache_files_map' = st.cache.files_map
                    /\ disk' = st.cache.disk
                    /\ task' = [task EXCEPT ![c] = [u \in Urls |->
                                   IF ~again /\ u \in ToCancel(c, pending)
                                   THEN [task[c][u] EXCEPT !.st = "cancelling"]
                                   ELSE task[c][u]]]
                    /\ Set(c, IF again THEN [r2 EXCEPT !.pc = "race"]
                              ELSE IF pending # {} THEN [r2 EXCEPT !.pc = "drain"]
                              ELSE AfterRace(r2, st.valid, st.all))
    /\ UNCHANGED <<poolVars, create>>
    /\ UNCHANGED catalogVars

(* A fault: the pending tasks are not awaited. *)
NotAwaited(c, url) == TRUE

(* `await task` (line 480) returns or raises once the task has ended.      *)
Ended(c, url) == task[c][url].st \in {"done", "cancelled"}

(* _crawl_urls (lines 478-486): every pending task has been awaited: each  *)
(* has ended, with CancelledError, a result or an exception.               *)
_crawl_urls_drain(c) ==
    /\ call[c].pc = "drain"
    /\ \A u \in call[c].pending : Ended(c, u)
    /\ Set(c, AfterRace(call[c], call[c].new_valid, call[c].new_all))
    /\ UNCHANGED <<poolVars, cacheVars, create, task>>
    /\ UNCHANGED catalogVars

(* ------------------------------------------------------------- bulk path *)

(* crawler.arun_many(urls, config, dispatcher) (lines 191-195): with       *)
(* config.stream an asynchronous generator that nothing has consumed yet,  *)
(* without it the list of the results, one per URL.                        *)
arun_many_results(stream, urls, successes) ==
    IF stream
    THEN [ret_type |-> "async_generator", ret |-> <<>>]
    ELSE [ret_type |-> "list",
          ret |-> [k \in 1..Len(urls) |->
                     [url |-> urls[k], success |-> successes[k], is_none |-> FALSE,
                      markdown |-> <<>>, word_count |-> 0, from_cache |-> FALSE]]]

(* crawl (lines 191-195, 200-207): `await crawler.arun_many(...)` returns  *)
(* and its value is what crawl returns after the worker is checked in.     *)
arun_many(c, successes) ==
    /\ call[c].pc = "arun_many"
    /\ LET r == call[c]
           results == arun_many_results(crawler_run_config.stream, r.urls, successes)
       IN  Set(c, [r EXCEPT !.pc = "finish", !.ret = results.ret,
                              !.ret_type = results.ret_type])
    /\ UNCHANGED <<poolVars, cacheVars, create, task>>
    /\ UNCHANGED catalogVars

(* crawl (lines 196-201): crawler.arun_many raises; the error is logged    *)
(* and raised again after the finally block.                               *)
arun_many_raises(c) ==
    /\ call[c].pc = "arun_many"
    /\ Set(c, [call[c] EXCEPT !.pc = "finish", !.exc = "arun_many"])
    /\ UNCHANGED <<poolVars, cacheVars, create, task>>
    /\ UNCHANGED catalogVars

(* ------------------------------------------------- the caller is cancelled *)

(* CancelledError at `await self.init()` (lines 183, 225, 132): gather     *)
(* cancels its tasks and the call ends with the error.                     *)
cancel_init(c) ==
    /\ call[c].pc = "init"
    /\ create' = [create EXCEPT ![c] = [k \in 1..MaxCrawlers |->
                     IF create[c][k] = "creating" THEN "cancelled" ELSE create[c][k]]]
    /\ Set(c, [call[c] EXCEPT !.pc = "raised", !.exc = "CancelledError"])
    /\ UNCHANGED <<poolVars, cacheVars, task>>
    /\ UNCHANGED catalogVars

(* CancelledError at `await task` of the cached phase (line 369): it is no *)
(* Exception, so line 380 does not catch it and the call ends with it.     *)
cancel_cached(c) ==
    /\ call[c].pc = "cached"
    /\ Set(c, [call[c] EXCEPT !.pc = "raised", !.exc = "CancelledError"])
    /\ UNCHANGED <<poolVars, cacheVars, create, task>>
    /\ UNCHANGED catalogVars

(* CancelledError at `await asyncio.wait` (line 425) or at `await          *)
(* crawler.arun_many` (line 191): it leaves the try block through the      *)
(* finally block (lines 262-264, 200-201); the fetch tasks are not touched. *)
cancel_fetch(c) ==
    /\ call[c].pc \in {"race", "arun_many"}
    /\ Set(c, [call[c] EXCEPT !.pc = "finish", !.exc = "CancelledError"])
    /\ UNCHANGED <<poolVars, cacheVars, create, task>>
    /\ UNCHANGED catalogVars

(* CancelledError in _get_available_crawler (line 246 or 187, outside the  *)
(* try block): while the caller waits for the lock (line 159), or in the   *)
(* sleep of line 162, where leaving the `async with` block frees the lock. *)
cancel_checkout(c) ==
    /\ \/ call[c].pc = "checkout" /\ lock # 0
       \/ call[c].pc = "getter_sleep"
    /\ lock' = IF lock = c THEN 0 ELSE lock
    /\ Set(c, [call[c] EXCEPT !.pc = "raised", !.exc = "CancelledError"])
    /\ UNCHANGED <<_pool, n_crawlers, crawler_run_config, initialized, crawlers, available_crawlers,
                   cacheVars, create, task>>
    /\ UNCHANGED catalogVars

(* CancelledError in `await self._release_crawler(crawler)` of the finally *)
(* block (lines 201, 264) while the caller waits for the lock (line 169):  *)
(* the append of line 170 is not reached and the call ends with the error. *)
cancel_release(c) ==
    /\ call[c].pc = "finish"
    /\ lock # 0
    /\ Set(c, [call[c] EXCEPT !.pc = "raised", !.exc = "CancelledError"])
    /\ UNCHANGED <<poolVars, cacheVars, create, task>>
    /\ UNCHANGED catalogVars

(* -------------------------------------------------------- catalog cache *)
(* The cache keys f"{query}_{current}_{page_size}" the callers ask for:    *)
(* one more than the cache holds.                                          *)
Keys == {"k1", "k2", "k3", "k4"}

(* What becomes of the request of ProductClient.get_category_products      *)
(* (product_client.py, lines 40-62): status 200 with records, status 200   *)
(* without, another status, a requests.RequestException, or any other      *)
(* exception (a body that does not fit CombineSearchResponse).             *)
Outcomes == {"records", "no_records", "status", "request_error", "exception"}

(* ProductClient.get_category_products (product_client.py, lines 27-66):   *)
(* the response of the service; for another status or a RequestException a *)
(* response with data.records = []; any other exception is raised again.   *)
ProductClient_get_category_products(outcome) ==
    CASE outcome = "records" ->
            [raised |-> FALSE, success |-> TRUE, has_data |-> TRUE,
             records |-> << <<"productName", "sellPriceCur", "sellPrice">> >>]
      [] outcome = "no_records" ->
            [raised |-> FALSE, success |-> TRUE, has_data |-> TRUE, records |-> <<>>]
      [] outcome \in {"status", "request_error"} ->
            [raised |-> FALSE, success |-> FALSE, has_data |-> TRUE, records |-> <<>>]
      [] OTHER ->
            [raised |-> TRUE, success |-> FALSE, has_data |-> FALSE, records |-> <<>>]

(* A fault: combine_search lets the exception through.                     *)
CombineSearchReraises(response) == response

(* ProductClient.combine_search (product_client.py, lines 76-91): an       *)
(* exception becomes a response with code 500 and no data.                 *)
ProductClient_combine_search(response) ==
    IF response.raised
    THEN [raised |-> FALSE, success |-> FALSE, has_data |-> FALSE, records |-> <<>>]
    ELSE response

(* list.remove(x): the first occurrence of x leaves the list.              *)
RECURSIVE list_remove(_, _)
list_remove(s, x) ==
    IF s = <<>> THEN <<>>
    ELSE IF Head(s) = x THEN Tail(s)
    ELSE <<Head(s)>> \o list_remove(Tail(s), x)

(* dict without the keys of D.                                             *)
Without(cache, D) == [k \in (DOMAIN cache) \ D |-> cache[k]]

(* A fault: an empty list is not stored.                                   *)
PutUnlessEmpty(cache, key, value) ==
    IF value.results = <<>> THEN cache
    ELSE [k \in (DOMAIN cache) \cup {key} |-> IF k = key THEN value ELSE cache[k]]

(* dict[key] = value.                                                      *)
Put(cache, key, value) ==
    [k \in (DOMAIN cache) \cup {key} |-> IF k = key THEN value ELSE cache[k]]

(* A fault: line 88 with >= for >.                                         *)
ExpiredAtTtl(cache, current_time) ==
    { k \in DOMAIN cache : current_time - cache[k].timestamp >= _cache_ttl }

(* _clean_expired_cache (lines 83-94): the keys stored more than _cache_ttl *)
(* before current_time.                                                    *)
expired_keys(cache, current_time) ==
    { k \in DOMAIN cache : current_time - cache[k].timestamp > _cache_ttl }

RECURSIVE remove_all(_, _)
remove_all(history, D) ==
    IF D = {} THEN history
    ELSE LET k == CHOOSE x \in D : TRUE
         IN remove_all(IF k \in Range(history) THEN list_remove(history, k) ELSE history,
                       D \ {k})

(* A fault: the expired keys stay in the access history.                   *)
CleanKeepsHistory(cache, history, current_time) ==
    [cache |-> Without(cache, expired_keys(cache, current_time)),
     history |-> history]

(* _clean_expired_cache (lines 91-94): the expired keys leave the cache    *)
(* and the access history.                                                 *)
_clean_expired_cache(cache, history, current_time) ==
    [cache |-> Without(cache, expired_keys(cache, current_time)),
     history |-> remove_all(history, expired_keys(cache, current_time))]

(* A fault: the key is appended and its earlier entry left in the list.    *)
AppendAlways(history, cache_key) == Append(history, cache_key)

(* A fault: a hit leaves the access history as it is.                      *)
NoPromotion(history, cache_key) ==
    IF cache_key \in Range(history) THEN history ELSE Append(history, cache_key)

(* _update_cache_access_history (lines 99-103): the key moves to the end.  *)
_update_cache_access_history(history, cache_key) ==
    Append(IF cache_key \in Range(history) THEN list_remove(history, cache_key)
           ELSE history,
           cache_key)

(* A fault: the most recently used key is the one dropped.                 *)
EvictNewest(cache, history) ==
    IF history = <<>> THEN [cache |-> cache, history |-> history]
    ELSE [cache |-> Without(cache, {history[Len(history)]}),
          history |-> SubSeq(history, 1, Len(history) - 1)]

(* _apply_lru_policy (lines 105-114): the head of the access history is    *)
(* popped and, if it is a key of the cache, deleted.                       *)
_apply_lru_policy(cache, history) ==
    IF history = <<>> THEN [cache |-> cache, history |-> history]
    ELSE [cache |-> Without(cache, {Head(history)}),
          history |-> Tail(history)]

(* Lines 278-283: the rows made of the response's records, [] when the     *)
(* response has no data or no record.                                      *)
results_of(response) ==
    IF response.has_data /\ response.records # <<>> THEN response.records
    ELSE <<>>

(* get_category_products, lines 261-272: the expired entries are cleaned  *)
(* at the time read by line 84; line 267 reads the clock again, d later.   *)
(* A hit promotes the key and returns the stored rows; otherwise the       *)
(* catalog client is awaited (line 272).                                   *)
get_category_products(c, cache_key, d) ==
    /\ lookup[c].pc \in {"idle", "done", "raised"}
    /\ Len(served) < MaxLookups
    /\ now + d <= MaxTime
    /\ LET cleaned == _clean_expired_cache(_category_products_cache,
                                           _cache_access_history, now)
       IN /\ now' = now + d
          /\ _category_products_cache' = cleaned.cache
          /\ IF /\ cache_key \in DOMAIN cleaned.cache
                /\ now + d - cleaned.cache[cache_key].timestamp < _cache_ttl
             THEN /\ _cache_access_history' =
                        _update_cache_access_history(cleaned.history, cache_key)
                  /\ lookup' = [lookup EXCEPT ![c] =
                        [pc |-> "done", cache_key |-> cache_key,
                         ret |-> cleaned.cache[cache_key].results, queried |-> FALSE,
                         failed |-> FALSE]]
                  /\ served' = Append(served, [cache_key |-> cache_key, hit |-> TRUE,
                                               at |-> now + d,
                                               empty |-> cleaned.cache[cache_key].results = <<>>])
             ELSE /\ _cache_access_history' = cleaned.history
                  /\ lookup' = [lookup EXCEPT ![c] =
                        [pc |-> "query", cache_key |-> cache_key,
                         ret |-> <<>>, queried |-> TRUE, failed |-> FALSE]]
                  /\ served' = served
    /\ UNCHANGED crawlVars

(* get_category_products, lines 272-292: the catalog client has answered;  *)
(* a full cache drops its least recently used key, the rows are stored     *)
(* with the time read by line 289, the key becomes the most recent one,    *)
(* and the rows are returned.  An exception of the client would leave      *)
(* through the try/finally of lines 260-295 and reach the caller.          *)
combine_search(c, outcome) ==
    /\ lookup[c].pc = "query"
    /\ LET response ==
               ProductClient_combine_search(ProductClient_get_category_products(outcome))
           results == results_of(response)
           cache_key == lookup[c].cache_key
           room == IF Cardinality(DOMAIN _category_products_cache) >= _max_cache_size
                   THEN _apply_lru_policy(_category_products_cache,
                                          _cache_access_history)
                   ELSE [cache |-> _category_products_cache,
                         history |-> _cache_access_history]
       IN IF response.raised
          THEN /\ lookup' = [lookup EXCEPT ![c] = [@ EXCEPT !.pc = "raised",
                                                            !.failed = TRUE]]
               /\ UNCHANGED <<_category_products_cache, _cache_access_history,
                              served>>
          ELSE /\ _category_products_cache' =
                     Put(room.cache, cache_key,
                         [results |-> results, timestamp |-> now])
               /\ _cache_access_history' =
                     _update_cache_access_history(room.history, cache_key)
               /\ lookup' = [lookup EXCEPT ![c] =
                                 [@ EXCEPT !.pc = "done", !.ret = results,
                                           !.failed = ~response.success]]
               /\ served' = Append(served, [cache_key |-> cache_key, hit |-> FALSE,
                                            at |-> now, empty |-> results = <<>>])
    /\ UNCHANGED <<now, crawlVars>>

(* Time passes: a second between two readings of the clock.                *)
Tick ==
    /\ now < MaxTime
    /\ now' = now + 1
    /\ UNCHANGED <<_category_products_cache, _cache_access_history, lookup,
                   served, crawlVars>>

(* ------------------------------------------------------ specifications *)
Seqs(S, n) == UNION { [1..k -> S] : k \in 0..n }

(* The URLs are interchangeable (Init draws the directory per URL), so the *)
(* lists are taken up to renaming: first occurrences in the order a, b.    *)
UrlLists == { s \in Seqs(Urls, MaxUrls) :
                LET m == url_hash_map(s) IN m = SubSeq(UrlOrder, 1, Len(m)) }
Counts == (0 - MaxCount)..MaxCount
MinWordCounts == 0..MaxMinWordCount

Engine(c) ==
    \/ \E u \in Urls, m \in Contents : arun(c, u, "ok", m)
    \/ \E u \in Urls, kind \in {"fail", "raise"} : arun(c, u, kind, <<>>)
    \/ \E u \in Urls : arun_cancelled(c, u)
    \/ \E u \in Urls : arun_completes_late(c, u)
    \/ \E successes \in [1..Len(call[c].urls) -> BOOLEAN] : arun_many(c, successes)
    \/ arun_many_raises(c)

Creation(c) ==
    \/ \E k \in 1..MaxCrawlers : _create_crawler(c, k)
    \/ \E k \in 1..MaxCrawlers : _create_crawler_raises(c, k)
    \/ init(c)
    \/ init_raises(c)

Fastest(c) ==
    \/ _process_cached_urls(c)
    \/ _process_cached_urls_await(c)
    \/ crawl_fastest_cached(c)
    \/ _get_available_crawler(c)
    \/ _crawl_urls(c)
    \/ _crawl_urls_wait(c)
    \/ _crawl_urls_drain(c)
    \/ _release_crawler(c)

Cancelled(c) ==
    \/ cancel_init(c)
    \/ cancel_cached(c)
    \/ cancel_fetch(c)

(* One caller, every input. *)
Next ==
    \/ /\ call[1].pc = "idle"
       /\ \E urls \in UrlLists, count \in Counts, min_word_count \in MinWordCounts :
             crawl_fastest(1, urls, count, min_word_count)
    \/ /\ call[1].pc = "idle"
       /\ \E urls \in UrlLists : crawl(1, urls)
    \/ Creation(1)
    \/ Fastest(1)
    \/ Engine(1)
    \/ Cancelled(1)

Spec == Init /\ [][Next]_vars

(* Callers that share the pool: each makes one call for one URL, on an     *)
(* empty cache directory, and may be cancelled wherever it is suspended.   *)
(* With one URL a race has nothing left to cancel.                         *)
PoolInit ==
    /\ InitWith({ [f \in Files |-> NoFile] })
    /\ crawler_run_config = _default_crawler_run_config

PoolUrlLists == { <<"a">> }

PoolNext ==
    \E c \in Callers :
        \/ /\ call[c].pc = "idle"
           /\ \E urls \in PoolUrlLists : crawl_fastest(c, urls, 1, 0)
        \/ /\ call[c].pc = "idle"
           /\ \E urls \in PoolUrlLists : crawl(c, urls)
        \/ Creation(c)
        \/ _process_cached_urls(c)
        \/ _process_cached_urls_await(c)
        \/ crawl_fastest_cached(c)
        \/ _get_available_crawler(c)
        \/ _crawl_urls(c)
        \/ _crawl_urls_wait(c)
        \/ _release_crawler(c)
        \/ \E u \in Urls, m \in Contents : arun(c, u, "ok", m)
        \/ \E u \in Urls, kind \in {"fail", "raise"} : arun(c, u, kind, <<>>)
        \/ \E successes \in [1..Len(call[c].urls) -> BOOLEAN] : arun_many(c, successes)
        \/ arun_many_raises(c)
        \/ Cancelled(c)
        \/ cancel_checkout(c)
        \/ cancel_release(c)

PoolSpec == PoolInit /\ [][PoolNext]_vars

(* The event loop runs a coroutine that can go on, and a fetch or a worker *)
(* creation in progress ends; nobody is bound to cancel a caller.          *)
PoolProgress ==
    \E c \in Callers :
        \/ Creation(c)
        \/ _process_cached_urls(c)
        \/ _process_cached_urls_await(c)
        \/ crawl_fastest_cached(c)
        \/ _get_available_crawler(c)
        \/ _crawl_urls(c)
        \/ _crawl_urls_wait(c)
        \/ _release_crawler(c)
        \/ \E u \in Urls, m \in Contents : arun(c, u, "ok", m)
        \/ \E u \in Urls, kind \in {"fail", "raise"} : arun(c, u, kind, <<>>)
        \/ \E successes \in [1..Len(call[c].urls) -> BOOLEAN] : arun_many(c, successes)
        \/ arun_many_raises(c)

PoolFairSpec == PoolSpec /\ WF_vars(PoolProgress)

(* The cache alone: texts that need escaping are stored for a URL as the   *)
(* race loop does for a fetched result (lines 449-450), and loaded as the  *)
(* cached phase does (line 363).                                           *)
Texts == Seqs(Chars, MaxTextLen) \ {<<>>}

RoundTripInit ==
    /\ n_crawlers = 1
    /\ InitWith({ [f \in Files |-> NoFile] })
    /\ crawler_run_config = _default_crawler_run_config

store_fetched(c, url, markdown_content, written) ==
    /\ task[c][url].st = "none"
    /\ task' = [task EXCEPT ![c][url] =
                   [st |-> "done", kind |-> "ok", markdown |-> markdown_content]]
    /\ LET cache == _cache_result([files_map |-> cache_files_map, disk |-> disk],
                                  url, markdown_content, written)
       IN  /\ cache_files_map' = cache.files_map
           /\ disk' = cache.disk
    /\ Set(c, [call[c] EXCEPT !.write_failed =
                  IF written = "written" THEN @ ELSE @ \cup {url}])
    /\ UNCHANGED <<poolVars, create>>
    /\ UNCHANGED catalogVars

load_cached(c, url) ==
    /\ url \notin Range(call[c].loaded)
    /\ LET result == _process_cached_url(url, md5(url))
       IN  Set(c, [call[c] EXCEPT
                     !.loaded = Append(@, url),
                     !.all_results = IF result.is_none THEN @ ELSE Append(@, result)])
    /\ UNCHANGED <<poolVars, cacheVars, create, task>>
    /\ UNCHANGED catalogVars

RoundTripNext ==
    \/ \E url \in Urls, markdown_content \in Texts, written \in WriteOutcomes :
          store_fetched(1, url, markdown_content, written)
    \/ \E url \in Urls : load_cached(1, url)

RoundTripSpec == RoundTripInit /\ [][RoundTripNext]_vars

(* The catalog cache alone: one caller looks keys up, one lookup after the *)
(* other, while the clock advances.  This is also how the lookups of       *)
(* several callers run with the present ProductClient: requests.get        *)
(* (product_client.py, line 40) blocks the event loop, so a lookup never   *)
(* yields before it has returned.                                          *)
CatalogInit ==
    /\ n_crawlers = 1
    /\ InitWith({ [f \in Files |-> NoFile] })
    /\ crawler_run_config = _default_crawler_run_config

CatalogNext ==
    \/ \E cache_key \in Keys, d \in {0, 1} : get_category_products(1, cache_key, d)
    \/ \E outcome \in Outcomes : combine_search(1, outcome)
    \/ Tick

CatalogSpec == CatalogInit /\ [][CatalogNext]_vars

(* The bulk path alone: one caller calls crawl on a pool built with the    *)
(* default configuration or with one of its own.                           *)
BulkInit == InitWith({ [f \in Files |-> NoFile] })

BulkNext ==
    \/ /\ call[1].pc = "idle"
       /\ \E urls \in Seqs(Urls, MaxUrls) : crawl(1, urls)
    \/ Creation(1)
    \/ cancel_init(1)
    \/ _get_available_crawler(1)
    \/ \E successes \in [1..Len(call[1].urls) -> BOOLEAN] : arun_many(1, successes)
    \/ arun_many_raises(1)
    \/ _release_crawler(1)

BulkSpec == BulkInit /\ [][BulkNext]_vars

(* The pool behind PoolManager: the callers ask get_pool for it, nobody    *)
(* has asked before.  The fields of the pool are those its construction    *)
(* (line 21 of pool_manager.py) gives it.                                  *)
ManagerInit ==
    /\ InitWith({ [f \in Files |-> NoFile] })
    /\ crawler_run_config = _default_crawler_run_config

ManagerNext ==
    \E c \in Callers :
        \/ get_pool(c)
        \/ Creation(c)
        \/ cancel_init(c)

ManagerSpec == ManagerInit /\ [][ManagerNext]_vars

(* The cached phase on more URLs than a batch holds: twelve URLs, each     *)
(* with a record of one of the two texts, of 2 and of 3 characters, and a  *)
(* threshold of 3 characters that only the second clears.                  *)
BatchUrls == <<"a", "b", "c", "d", "e", "f", "g", "h", "i", "j", "k", "l">>

BatchDirs ==
    { [f \in { cache_filename(md5(u)) : u \in Range(BatchUrls) } |->
         LET u == CHOOSE v \in Range(BatchUrls) : cache_filename(md5(v)) = f
         IN  Record(u, text[u])] : text \in [Range(BatchUrls) -> Contents] }

BatchCounts == {0, 1, 2, Len(BatchUrls)}

BatchInit ==
    /\ n_crawlers = 1
    /\ InitWith(BatchDirs)
    /\ crawler_run_config = _default_crawler_run_config

BatchNext ==
    \/ /\ call[1].pc = "idle"
       /\ \E count \in BatchCounts : crawl_fastest(1, BatchUrls, count, MaxMinWordCount)
    \/ Creation(1)
    \/ _process_cached_urls(1)
    \/ _process_cached_urls_await(1)
    \/ crawl_fastest_cached(1)

BatchSpec == BatchInit /\ [][BatchNext]_vars

(* Concurrent lookups: two callers, each of which may be suspended at the  *)
(* await of line 272 while the other runs, as the signature of the client  *)
(* (an async function) allows.  The service starts warm: caller 1 has     *)
(* looked up k1 (rows) and k2 (a failed request) at time 0, a state that   *)
(* CatalogSpec reaches.                                                    *)
(* The catalog cache after caller 1 looked up k1 and k2 at time 0.         *)
Warm ==
    /\ _category_products_cache =
          [k \in {"k1", "k2"} |->
             [results |-> IF k = "k1"
                          THEN << <<"productName", "sellPriceCur", "sellPrice">> >>
                          ELSE <<>>,
              timestamp |-> 0]]
    /\ _cache_access_history = <<"k1", "k2">>
    /\ now = 0
    /\ lookup = [c \in Callers |->
                   IF c = 1
                   THEN [pc |-> "done", cache_key |-> "k2", ret |-> <<>>,
                         queried |-> TRUE, failed |-> TRUE]
                   ELSE IdleLookup]
    /\ served = <<[cache_key |-> "k1", hit |-> FALSE, at |-> 0, empty |-> FALSE],
                  [cache_key |-> "k2", hit |-> FALSE, at |-> 0, empty |-> TRUE]>>

CatalogRaceInit ==
    /\ n_crawlers = 1
    /\ InitCrawl({ [f \in Files |-> NoFile] })
    /\ crawler_run_config = _default_crawler_run_config
    /\ Warm

CatalogRaceNext ==
    \/ \E c \in Callers, cache_key \in Keys, d \in {0, 1} :
          get_category_products(c, cache_key, d)
    \/ \E c \in Callers, outcome \in {"records", "status"} : combine_search(c, outcome)
    \/ Tick

CatalogRaceSpec == CatalogRaceInit /\ [][CatalogRaceNext]_vars

(* ================================================================ claims *)

(* What a crawl_fastest call has found out about a URL. *)
FastestDone(c) == call[c].op = "crawl_fastest" /\ call[c].pc = "done"
InputUrls(c) == Range(call[c].urls)

CacheResults(c, url) ==
    { i \in 1..Len(call[c].all_results) :
        call[c].all_results[i].url = url /\ call[c].all_results[i].from_cache }

(* The URL was loaded from the cache, or its fetch task ended by itself. *)
Resolved(c, url) ==
    \/ CacheResults(c, url) # {}
    \/ task[c][url].st = "done" /\ task[c][url].kind \in {"ok", "fail", "raise"}

(* The URL was loaded or fetched and gave a result object. *)
HasResult(c, url) ==
    \/ CacheResults(c, url) # {}
    \/ task[c][url].st = "done" /\ task[c][url].kind \in {"ok", "fail"}

(* The word count the URL yields clears the threshold: the characters of a *)
(* cached text, the words of a fetched text, 0 for a fetch without text.   *)
YieldsValid(c, url) ==
    \/ \E i \in CacheResults(c, url) :
          CharCount(call[c].all_results[i].markdown) >= call[c].min_word_count
    \/ /\ task[c][url].st = "done" /\ task[c][url].kind = "ok"
       /\ SplitCount(task[c][url].markdown) >= call[c].min_word_count
    \/ /\ task[c][url].st = "done" /\ task[c][url].kind = "fail"
       /\ 0 >= call[c].min_word_count

ValidUrls(c) == { u \in InputUrls(c) : YieldsValid(c, u) }

(* C1: a crawl_fastest call with 1 <= count <= |U| that returns has        *)
(* returned exactly count results, each with word_count >= min_word_count, *)
(* unless every URL of U was resolved (cache load or live fetch) and fewer *)
(* than count of them yield a word count >= min_word_count.                *)
C1_ExactlyCountValid ==
    \A c \in Callers :
        (FastestDone(c) /\ 1 <= call[c].count
                        /\ call[c].count <= Cardinality(InputUrls(c)))
        => \/ /\ Len(call[c].ret) = call[c].count
              /\ \A i \in 1..Len(call[c].ret) :
                    call[c].ret[i].word_count >= call[c].min_word_count
           \/ /\ \A u \in InputUrls(c) : Resolved(c, u)
              /\ Cardinality(ValidUrls(c)) < call[c].count

(* C1 happens: two results returned for count = 2, one loaded from the     *)
(* cache and one fetched, with a positive threshold.                       *)
C1_Witness ==
    \E c \in Callers :
        /\ FastestDone(c) /\ call[c].count = 2 /\ call[c].min_word_count >= 1
        /\ Cardinality(ValidUrls(c)) >= 2
        /\ Len(call[c].ret) = 2
        /\ call[c].ret[1].from_cache /\ ~call[c].ret[2].from_cache

(* Fewer than count URLs meet the threshold and every candidate is resolved *)
Exhausted(c) ==
    /\ FastestDone(c) /\ call[c].count >= 1
    /\ \A u \in InputUrls(c) : Resolved(c, u)
    /\ Cardinality(ValidUrls(c)) < call[c].count

(* C2 as stated: on exhaustion the call returns exactly min(count, |U|)    *)
(* results, fetches that raise included among the candidates.              *)
C2_Original ==
    \A c \in Callers :
        Exhausted(c)
        => Len(call[c].ret) = Min(call[c].count, Cardinality(InputUrls(c)))

(* C2 amended: on exhaustion the call returns exactly min(count, r)        *)
(* results, r the number of URLs that gave a result object (a cache load   *)
(* that succeeded, or a fetch task that ended without raising); every      *)
(* returned result is one of those, sub-threshold ones included.           *)
C2_MinCountResults ==
    \A c \in Callers :
        Exhausted(c)
        => LET got == { u \in InputUrls(c) : HasResult(c, u) }
           IN  /\ Len(call[c].ret) = Min(call[c].count, Cardinality(got))
               /\ \A i \in 1..Len(call[c].ret) : call[c].ret[i].url \in got
               /\ call[c].count >= Cardinality(got)
                  => \A u \in got : \E i \in 1..Len(call[c].ret) : call[c].ret[i].url = u

(* C2 happens: a fetch raised, another gave a sub-threshold result, and    *)
(* the call returned that one alone for count = 2.                         *)
C2_Witness ==
    \E c \in Callers :
        /\ Exhausted(c) /\ call[c].count = 2
        /\ \E u \in InputUrls(c) : task[c][u].st = "done" /\ task[c][u].kind = "raise"
        /\ Len(call[c].ret) = 1
        /\ call[c].ret[1].word_count < call[c].min_word_count

(* C3: when a crawl_fastest call returns with fewer than count valid       *)
(* results, all_results holds every result of the cached phase and of the  *)
(* race phase, and the returned list is its top count entries in           *)
(* non-increasing word_count order.                                        *)
C3_TopCountByWordCount ==
    \A c \in Callers :
        (FastestDone(c) /\ Len(call[c].valid_results) < call[c].count)
        => LET r == call[c]
               ret == r.ret
               all == r.all_results
           IN  /\ \A u \in Range(r.loaded) \ Range(r.urls_to_crawl) :
                     \E i \in 1..Len(all) : all[i].url = u /\ all[i].from_cache
               /\ \A u \in Range(r.processed) :
                     task[c][u].kind # "raise"
                     => \E i \in 1..Len(all) : all[i].url = u /\ ~all[i].from_cache
               /\ Len(ret) = Min(r.count, Len(all))
               /\ \A i \in 1..Len(ret) : ret[i] \in Range(all)
               /\ \A i, j \in 1..Len(ret) :
                     i < j => /\ ret[i].word_count >= ret[j].word_count
                              /\ ret[i].url # ret[j].url
               /\ \A k \in 1..Len(all) :
                     (\A i \in 1..Len(ret) : ret[i].url # all[k].url)
                     => \A i \in 1..Len(ret) : ret[i].word_count >= all[k].word_count

(* C3 happens: a (2 words, valid) and b (1 word, below the threshold 2)    *)
(* with count = 2, b fetched first: [a, b] is returned.                    *)
C3_Witness ==
    \E c \in Callers :
        /\ FastestDone(c) /\ call[c].count = 2 /\ call[c].min_word_count = 2
        /\ Len(call[c].all_results) = 2
        /\ call[c].all_results[1].url = "b" /\ call[c].all_results[1].word_count = 1
        /\ Len(call[c].ret) = 2
        /\ call[c].ret[1].url = "a" /\ call[c].ret[1].word_count = 2
        /\ call[c].ret[2].url = "b"

(* The URLs whose cached text clears the threshold, in input order. *)
CachedValid(c) ==
    LET valid(u) == /\ u \in call[c].cached_at_start
                    /\ CharCount(json_loads(disk[cache_filename(md5(u))].markdown).value)
                          >= call[c].min_word_count
    IN  SelectSeq(url_hash_map(call[c].urls), valid)

Partitioned(c) ==
    /\ call[c].op = "crawl_fastest"
    /\ call[c].pc \notin {"idle", "init", "body"}

(* C4: when the cache holds at least count URLs of the input whose text    *)
(* clears the threshold, the call never checks a worker out nor starts a   *)
(* fetch task, and it returns the first count of them, in the order of the *)
(* input (nothing for count <= 0).                                         *)
C4_CachedPhaseSuffices ==
    \A c \in Callers :
        (Partitioned(c) /\ Len(CachedValid(c)) >= call[c].count)
        => /\ call[c].crawler = 0 /\ ~call[c].holding
           /\ \A u \in Urls : task[c][u].st = "none"
           /\ call[c].pc \notin {"checkout", "crawl_urls", "race", "drain", "finish"}
           /\ call[c].pc = "done"
              => /\ Len(call[c].ret) = Max(call[c].count, 0)
                 /\ \A i \in 1..Len(call[c].ret) :
                       /\ call[c].ret[i].url = CachedValid(c)[i]
                       /\ call[c].ret[i].from_cache

(* C4 happens: a and b are cached, only the text of b clears the           *)
(* threshold, count = 1: b is returned from the cache.                     *)
C4_Witness ==
    \E c \in Callers :
        /\ FastestDone(c) /\ call[c].count = 1 /\ call[c].min_word_count = 3
        /\ call[c].urls = <<"a", "b">>
        /\ CachedValid(c) = <<"b">>
        /\ "a" \in call[c].cached_at_start
        /\ Len(call[c].ret) = 1 /\ call[c].ret[1].url = "b"

(* C5: when every URL of the input has a cache entry that loads, the call  *)
(* starts no fetch task, whatever count and min_word_count are.            *)
C5_FullyCachedNoFetch ==
    \A c \in Callers :
        (Partitioned(c) /\ InputUrls(c) \subseteq call[c].cached_at_start)
        => /\ \A u \in Urls : task[c][u].st = "none"
           /\ call[c].started = <<>>

(* C5 happens: both URLs cached, neither text clears the threshold, the    *)
(* call returns both after the cached phase.                               *)
C5_Witness ==
    \E c \in Callers :
        /\ FastestDone(c) /\ call[c].count = 2 /\ call[c].urls = <<"a", "b">>
        /\ InputUrls(c) \subseteq call[c].cached_at_start
        /\ call[c].valid_results = <<>>
        /\ Len(call[c].ret) = 2

Stored(url, markdown_content) ==
    /\ cache_filename(md5(url)) \in cache_files_map
    /\ disk[cache_filename(md5(url))] = Record(url, markdown_content)

C7_PendingCancelled ==
    \A c \in Callers :
        (call[c].op = "crawl_fastest" /\ call[c].exc = ""
            /\ call[c].pc \in {"drain", "finish", "done"})
        => \A u \in Urls : task[c][u].st # "running"

(* C7 happens: the gate was met with a task pending, which was cancelled.  *)
C7_Witness ==
    \E c \in Callers :
        /\ FastestDone(c)
        /\ Len(call[c].new_valid) = call[c].needed_count
        /\ \E u \in call[c].pending : task[c][u].st = "cancelled"

(* C8 as stated: the call does not wait for a cancelled task to end: it is *)
(* never suspended at line 480 on a task that has not ended.               *)
C8_Original ==
    \A c \in Callers :
        call[c].pc = "drain" => \A u \in call[c].pending : Ended(c, u)

(* C8 amended: the call awaits every task it cancelled: it leaves line 480 *)
(* only when each pending task has ended, with CancelledError or by        *)
(* running to its own end, so a task slow to stop delays the return.       *)
C8_ReturnAwaitsCancelled ==
    [][\A c \in Callers :
          (call[c].pc = "drain" /\ call'[c].pc # "drain")
          => \A u \in call[c].pending : task[c][u].st \in {"done", "cancelled"}]_vars

(* C8 happens: a cancelled task ran to its own end before the call went on *)
C8_Witness ==
    \E c \in Callers :
        /\ call[c].pc = "finish" /\ call[c].exc = ""
        /\ \E u \in call[c].pending : task[c][u].st = "done" /\ task[c][u].kind = "none"

(* C9: no exception of a fetch task and no CancelledError of a cancelled   *)
(* task ends a crawl_fastest call (only a failed init() and the caller's   *)
(* own cancellation do), and none aborts the race: a call that returns     *)
(* with fewer than count valid results has processed every task it started. *)
C9_FetchErrorsAbsorbed ==
    \A c \in Callers :
        call[c].op = "crawl_fastest"
        => /\ call[c].exc \in {"", "init", "CancelledError"}
           /\ (\E u \in Urls : task[c][u].st = "cancelled") => call[c].exc = ""
           /\ (call[c].pc \in {"finish", "done"} /\ call[c].exc = ""
                  /\ Len(call[c].valid_results) < call[c].count)
              => /\ call[c].started = call[c].urls_to_crawl
                 /\ \A u \in Range(call[c].started) :
                       /\ u \in Range(call[c].processed)
                       /\ task[c][u].kind # "raise"
                          => \E i \in 1..Len(call[c].all_results) :
                                call[c].all_results[i].url = u

(* C9 happens: a task raised, the other was still processed and returned.  *)
C9_Witness ==
    \E c \in Callers :
        /\ FastestDone(c)
        /\ call[c].processed = <<"a", "b">>
        /\ task[c]["a"].kind = "raise" /\ task[c]["b"].kind = "ok"
        /\ Len(call[c].ret) = 1 /\ call[c].ret[1].url = "b"

(* C10 as stated: a call of crawl_fastest or of crawl that has finished,   *)
(* by returning or by raising, does not keep the worker it checked out:    *)
(* the worker went back to available_crawlers.                             *)
C10_Original ==
    \A c \in Callers :
        call[c].pc \in {"done", "raised"} => ~call[c].holding

(* The callers that hold a worker: checked out and not checked in. *)
Holders == { c \in Callers : call[c].holding }

(* C11 as stated: the workers checked out and not yet checked in are never *)
(* more than n_crawlers, and no worker is held by two callers at once.     *)
C11_Original ==
    /\ Cardinality(Holders) <= n_crawlers
    /\ \A c, d \in Holders : c # d => call[c].crawler # call[d].crawler

(* C12 as stated: a caller waiting in _get_available_crawler for a worker  *)
(* gets out of the wait, and a caller that has reached the check-in of its *)
(* worker completes it.                                                    *)
C12_Original ==
    \A c \in Callers :
        /\ (call[c].pc = "getter_sleep") ~> (call[c].pc # "getter_sleep")
        /\ (call[c].pc = "finish") ~> (call[c].pc \in {"done", "raised"})

(* C13 as stated: every crawl_fastest call ends, by returning or raising,  *)
(* when the fetch tasks end, whatever the number of callers and workers.   *)
C13_Original ==
    \A c \in Callers :
        (call[c].op = "crawl_fastest") ~> (call[c].pc \in {"done", "raised"})

(* C14 as stated: when init() completes the pool holds exactly n_crawlers  *)
(* workers, all of them available; a call on an initialised pool creates   *)
(* no worker and leaves the pool alone; and a worker is checked out only   *)
(* from a pool whose init() has completed.                                 *)
C14_Original ==
    [][\A c \in Callers :
          /\ (call[c].pc = "init" /\ call'[c].pc \in {"body", "checkout"})
             => (Len(crawlers') = n_crawlers /\ available_crawlers' = crawlers')
          /\ (call[c].pc = "idle" /\ call'[c].pc # "idle" /\ initialized)
             => (call'[c].pc # "init" /\ UNCHANGED <<poolVars, create>>)
          /\ (~call[c].holding /\ call'[c].holding) => initialized]_vars

(* C15: once the creation of a worker has failed in the init() that a call *)
(* of crawl or crawl_fastest runs, the pool is not marked initialised, and *)
(* the call goes nowhere but to raising: it checks no worker out and       *)
(* returns no result.                                                      *)
C15_InitFailureFatal ==
    \A c \in Callers :
        (\E k \in 1..MaxCrawlers : create[c][k] = "failed")
        => /\ ~initialized
           /\ call[c].pc \in {"init", "raised"}
           /\ call[c].pc = "raised" => call[c].exc \in {"init", "CancelledError"}
           /\ ~call[c].holding /\ call[c].crawler = 0
           /\ call[c].ret = <<>>

(* C15 happens: of two creations one succeeded and one failed, and the     *)
(* call has raised the failure.                                            *)
C15_Witness ==
    \E c \in Callers :
        /\ call[c].pc = "raised" /\ call[c].exc = "init"
        /\ \E k \in 1..MaxCrawlers : create[c][k] = "failed"
        /\ \E k \in 1..MaxCrawlers : create[c][k] = "done"
        /\ ~initialized

(* C16: a crawl_fastest call with an empty urls list or with count <= 0    *)
(* checks no worker out and starts no fetch task, and what it returns is   *)
(* the empty list, whatever the cache holds.                               *)
C16_EdgeCasesEmpty ==
    \A c \in Callers :
        (call[c].op = "crawl_fastest" /\ (call[c].urls = <<>> \/ call[c].count <= 0))
        => /\ \A u \in Urls : task[c][u].st = "none"
           /\ ~call[c].holding /\ call[c].crawler = 0
           /\ call[c].pc \in {"init", "body", "cached", "decide", "done", "raised"}
           /\ call[c].pc = "raised" => call[c].exc \in {"init", "CancelledError"}
           /\ call[c].pc = "done" => call[c].ret = <<>>

(* C16 happens: count = -1 with a cached text that counts as valid: the    *)
(* cached phase holds one valid result and the call returns none.          *)
C16_Witness ==
    \E c \in Callers :
        /\ FastestDone(c) /\ call[c].count = 0 - 1
        /\ call[c].urls = <<"a", "b">>
        /\ Len(call[c].valid_results) = 1
        /\ call[c].urls_to_crawl # <<>>
        /\ call[c].ret = <<>>

(* C17: once _cache_result has stored a text for a URL, loading that URL   *)
(* with _process_cached_url gives a result with that same text, success    *)
(* true and from_cache true; and every result that was loaded carries the  *)
(* text stored for its URL.                                                *)
C17_CacheRoundTrip ==
    /\ \A url \in Urls :
          (task[1][url].st = "done" /\ url \notin call[1].write_failed)
          => LET result == _process_cached_url(url, md5(url))
             IN  /\ ~result.is_none
                 /\ result.url = url
                 /\ result.markdown = task[1][url].markdown
                 /\ result.success /\ result.from_cache
    /\ \A i \in 1..Len(call[1].all_results) :
          LET result == call[1].all_results[i]
          IN  /\ result.markdown = task[1][result.url].markdown
              /\ result.success /\ result.from_cache

(* C17 happens: a backslash followed by the letter n was stored and loaded *)
(* back, which a line feed would be confused with if it were not escaped.  *)
C17_Witness ==
    /\ Len(call[1].all_results) = 1
    /\ call[1].all_results[1].url = "a"
    /\ call[1].all_results[1].markdown = <<"\\", "n">>
    /\ task[1]["a"].markdown = <<"\\", "n">>

(* C18: a name enters the presence index only in a step that leaves a      *)
(* readable record under that name; and when the write for a fetched       *)
(* result fails, the index is as before for that URL, the call carries no  *)
(* exception, and the result is in the race's all_results, and in its      *)
(* valid_results exactly when its word count clears min_word_count.        *)
C18_IndexAfterWrite ==
    [][/\ \A f \in Files :
             (f \notin cache_files_map /\ f \in cache_files_map')
             => (disk'[f].kind = "record" /\ json_loads(disk'[f].markdown).ok)
       /\ \A c \in Callers :
             \A u \in call'[c].write_failed \ call[c].write_failed :
                /\ cache_filename(md5(u)) \in cache_files_map'
                      <=> cache_filename(md5(u)) \in cache_files_map
                /\ call[c].op = "crawl_fastest" => 
                      /\ call'[c].exc = ""
                      /\ call'[c].pc \in {"race", "drain", "finish"}
                      /\ \E i \in 1..Len(call'[c].new_all) :
                            call'[c].new_all[i].url = u
                      /\ (\E i \in 1..Len(call'[c].new_valid) :
                            call'[c].new_valid[i].url = u)
                         <=> SplitCount(task[c][u].markdown) >= call[c].min_word_count
      ]_vars

(* C18 happens: the write failed for the one URL fetched, whose name is    *)
(* not in the index, and the call has returned its result.                 *)
C18_Witness ==
    \E c \in Callers :
        /\ FastestDone(c) /\ call[c].write_failed = {"a"}
        /\ cache_filename(md5("a")) \notin cache_files_map
        /\ disk[cache_filename(md5("a"))] = Corrupt
        /\ Len(call[c].ret) = 1 /\ call[c].ret[1].url = "a"
        /\ ~call[c].ret[1].from_cache /\ call[c].ret[1].word_count >= 1

(* The URLs whose name was in the index when the call partitioned its     *)
(* input, and whose record did not load.                                   *)
FailedLoads(c) == Range(call[c].urls_with_cache) \ call[c].cached_at_start

(* The call has started its fetch tasks. *)
RaceStarted(c) ==
    call[c].crawler # 0 /\ call[c].pc \in {"race", "drain", "finish", "done", "raised"}

(* C19: a URL whose name is in the index and whose record cannot be read   *)
(* or parsed raises nothing into the call, gives no result of the cached   *)
(* phase, joins urls_to_crawl when its load is awaited, and has its fetch  *)
(* task started whenever the call gets to the race phase, like the URLs    *)
(* that have no name in the index.                                         *)
C19_FailedLoadIsMiss ==
    \A c \in Callers :
        Partitioned(c)
        => \A u \in FailedLoads(c) :
              /\ call[c].exc \in {"", "CancelledError"}
              /\ CacheResults(c, u) = {}
              /\ u \in Range(call[c].loaded) => u \in Range(call[c].urls_to_crawl)
              /\ RaceStarted(c)
                 => /\ task[c][u].st # "none"
                    /\ \A v \in InputUrls(c) :
                          cache_filename(md5(v)) \notin
                              { cache_filename(md5(w)) : w \in Range(call[c].urls_with_cache) }
                          => task[c][v].st # "none"

(* C19 happens: a has an unreadable record, b has none; both were fetched  *)
(* and a, fetched, is returned.                                            *)
C19_Witness ==
    \E c \in Callers :
        /\ FastestDone(c) /\ call[c].urls = <<"a", "b">>
        /\ FailedLoads(c) = {"a"}
        /\ call[c].started = <<"b", "a">>
        /\ task[c]["a"].kind = "ok" /\ task[c]["b"].kind = "fail"
        /\ Len(call[c].ret) = 1 /\ call[c].ret[1].url = "a" /\ ~call[c].ret[1].from_cache

(* ------------------------------------------------------ the catalog cache *)
(* No lookup is between its cleaning and its return.                       *)
Settled == \A c \in Callers : lookup[c].pc # "query"

(* The lookups i..j were misses, each of another key: j - i + 1 distinct   *)
(* keys were inserted one after the other, with no hit in between.         *)
Inserted(i, j) ==
    /\ 1 <= i /\ j <= Len(served)
    /\ \A m \in i..j : ~served[m].hit
    /\ \A m, n \in i..j : m # n => served[m].cache_key # served[n].cache_key

Present(k) == k \in DOMAIN _category_products_cache

(* The last _max_cache_size + 1 lookups inserted as many distinct keys.    *)
OverfilledFrom(i) ==
    /\ Len(served) = i + _max_cache_size
    /\ Inserted(i, Len(served))

(* The last lookups filled the cache with distinct keys from lookup i on,  *)
(* then hit the first of them, then inserted one more key.                 *)
PromotedFrom(i) ==
    /\ Len(served) = i + _max_cache_size + 1
    /\ Inserted(i, i + _max_cache_size - 1)
    /\ served[i + _max_cache_size].hit
    /\ served[i + _max_cache_size].cache_key = served[i].cache_key
    /\ ~served[Len(served)].hit
    /\ \A m \in i..(i + _max_cache_size - 1) :
          served[m].cache_key # served[Len(served)].cache_key

(* What C20 says of the cache after each of the two sequences.             *)
LruOrder(i) ==
    /\ OverfilledFrom(i)
       => /\ ~Present(served[i].cache_key)
          /\ \A m \in (i + 1)..Len(served) : Present(served[m].cache_key)
    /\ PromotedFrom(i)
       => /\ ~Present(served[i + 1].cache_key)
          /\ Present(served[i].cache_key)
          /\ \A m \in (i + 2)..Len(served) : Present(served[m].cache_key)

(* C20 as it is written: after capacity + 1 distinct keys are inserted     *)
(* with no hit in between, the first inserted key is absent and the others *)
(* are present; if the oldest key is hit once before the extra insertion,  *)
(* the second-oldest key is the one evicted and the promoted key stays.    *)
(* It fails when time passes: an entry stored more than _cache_ttl ago is  *)
(* removed by the next lookup, and a hit does not renew its timestamp.     *)
C20_Original ==
    Settled => \A i \in 1..MaxLookups : LruOrder(i)

(* C20: when no more than _cache_ttl has passed since the first insertion  *)
(* of the sequence, then after capacity + 1 distinct keys are inserted     *)
(* with no hit in between, the first inserted key is absent and the others *)
(* are present; and if the oldest key is hit once before the extra         *)
(* insertion, the second-oldest key is the one evicted and the promoted    *)
(* key and the other keys stay.                                            *)
C20_LruOrderWithinTtl ==
    Settled
    => \A i \in 1..MaxLookups :
          (i <= Len(served) /\ now - served[i].at <= _cache_ttl) => LruOrder(i)

(* C20 happens: three keys fill the cache while the clock advances, the    *)
(* oldest is hit, a fourth key is inserted: the second-oldest is gone.     *)
C20_Witness ==
    /\ Settled /\ PromotedFrom(1)
    /\ now > 0 /\ now - served[1].at <= _cache_ttl
    /\ _cache_access_history =
          <<served[3].cache_key, served[1].cache_key, served[5].cache_key>>
    /\ ~Present(served[2].cache_key)

(* A step in which caller c's lookup of key k goes to the catalog client   *)
(* (line 272), and one in which it is served from the cache (line 270).    *)
MissOf(c, k) ==
    /\ lookup[c].pc # "query" /\ lookup'[c].pc = "query"
    /\ lookup'[c].cache_key = k

HitOf(c, k) ==
    /\ lookup[c].pc # "query" /\ lookup'[c].pc = "done"
    /\ Len(served') = Len(served) + 1
    /\ served'[Len(served')].cache_key = k

(* Key k is stored and no older than _cache_ttl at the time t.             *)
Fresh(k, t) ==
    /\ k \in DOMAIN _category_products_cache
    /\ t - _category_products_cache[k].timestamp <= _cache_ttl

(* C21: a lookup of a key is a miss exactly when the key is not stored or  *)
(* is older than _cache_ttl when line 267 reads the clock; a lookup of a   *)
(* stored key of age at most _cache_ttl, the age _cache_ttl included, is   *)
(* served from the cache and makes the key the most recently used one.     *)
(* It fails at the age _cache_ttl itself: line 88 keeps the entry (age >   *)
(* ttl is false) and line 267 rejects it (age < ttl is false).             *)
C21_Original ==
    [][\A c \in Callers, k \in Keys :
          /\ MissOf(c, k) => ~Fresh(k, now')
          /\ HitOf(c, k)
             => /\ Fresh(k, now')
                /\ _cache_access_history'[Len(_cache_access_history')] = k
                /\ lookup'[c].ret = _category_products_cache[k].results]_vars

(* C22: in every state the catalog cache holds at most _max_cache_size     *)
(* entries, and the access-order list holds each stored key exactly once   *)
(* and no key that is not stored.                                          *)
C22_CatalogInvariants ==
    /\ Cardinality(DOMAIN _category_products_cache) <= _max_cache_size
    /\ Range(_cache_access_history) = DOMAIN _category_products_cache
    /\ \A m, n \in 1..Len(_cache_access_history) :
          m # n => _cache_access_history[m] # _cache_access_history[n]

(* C22 happens: the first key was removed as expired by the second        *)
(* lookup, three more keys filled the cache, and the first key, stored     *)
(* again, took the place of the least recently used one.                   *)
C22_Witness ==
    /\ Settled
    /\ Len(served) = _max_cache_size + 2
    /\ Inserted(1, _max_cache_size + 1)
    /\ served[2].at - served[1].at > _cache_ttl
    /\ ~served[Len(served)].hit
    /\ served[Len(served)].cache_key = served[1].cache_key
    /\ ~Present(served[2].cache_key)
    /\ Cardinality(DOMAIN _category_products_cache) = _max_cache_size

(* A step in which caller c's lookup stores the rows it got (line 289).    *)
StoreOf(c) == lookup[c].pc = "query" /\ lookup'[c].pc = "done"

(* The keys a step removes from the cache.                                 *)
Evicted == (DOMAIN _category_products_cache) \ (DOMAIN _category_products_cache')

(* C23: storing a key evicts a key only if the size after the insertion    *)
(* would exceed _max_cache_size, and then evicts exactly one key, the      *)
(* least recently used one; overwriting a key that is already stored in a  *)
(* full cache evicts nothing.                                              *)
(* It fails on an overwrite: line 285 tests len(cache) >= _max_cache_size  *)
(* without looking whether cache_key is already a key of the cache.        *)
C23_Original ==
    [][\A c \in Callers :
          StoreOf(c)
          => /\ Cardinality(Evicted) <= 1
             /\ Evicted # {}
                => /\ Cardinality((DOMAIN _category_products_cache)
                                  \cup {lookup[c].cache_key}) > _max_cache_size
                   /\ Evicted = {Head(_cache_access_history)}
             /\ lookup[c].cache_key \in DOMAIN _category_products_cache
                => Evicted = {}]_vars

(* ------------------------------------------------ deduplication, fan-out *)
NoDuplicates(s) == \A m, n \in 1..Len(s) : m # n => s[m] # s[n]

(* The fetch tasks the call has created.                                   *)
FetchTasks(c) == { u \in Urls : task[c][u].st # "none" }

(* C24: within one crawl_fastest call every distinct URL of the input is   *)
(* loaded from the cache at most once and fetched live at most once,       *)
(* however many times it occurs in urls; the race phase starts exactly one *)
(* fetch task per URL of urls_to_crawl, more than the pool has workers if  *)
(* need be, and the call holds one worker, the one it checked out.         *)
C24_DedupAndFanOut ==
    \A c \in Callers :
        call[c].op = "crawl_fastest"
        => /\ NoDuplicates(call[c].loaded)
           /\ Range(call[c].loaded) \subseteq InputUrls(c)
           /\ NoDuplicates(call[c].started)
           /\ FetchTasks(c) = Range(call[c].started)
           /\ RaceStarted(c)
              => /\ call[c].started = call[c].urls_to_crawl
                 /\ Range(call[c].urls_to_crawl) =
                       InputUrls(c) \ { u \in Urls : CacheResults(c, u) # {} }
           /\ call[c].holding
              => /\ call[c].crawler \in Range(crawlers)
                 /\ call[c].crawler \notin Range(available_crawlers)
                 /\ Len(available_crawlers) = Len(crawlers) - 1

(* C24 happens: a call for a, a, where a has an unreadable record: a is   *)
(* loaded once and fetched by one task on the only worker of the pool.     *)
C24_Witness ==
    \E c \in Callers :
        /\ n_crawlers = 1 /\ call[c].holding /\ call[c].pc = "race"
        /\ call[c].urls = <<"a", "a">>
        /\ call[c].loaded = <<"a">>
        /\ call[c].started = <<"a">>
        /\ FetchTasks(c) = {"a"}
        /\ available_crawlers = <<>>

(* ----------------------------------------------------- cached entries *)
(* C25: once a record has been written for a URL, no later step (a later   *)
(* call, a concurrent call racing on the same URL, a fetch after a failed  *)
(* load) changes the stored content of that record.                        *)
(* It fails for concurrent calls: _cache_result opens the file with mode   *)
(* 'w' whatever it holds, so the second of two fetches of a URL replaces   *)
(* the record of the first.                                                *)
C25_Original ==
    [][\A f \in Files : disk[f].kind = "record" => disk'[f] = disk[f]]_vars

(* ------------------------------------------------------- catalog errors *)
(* C26: when the catalog client fails (a status other than 200, a request  *)
(* error, any other exception), get_category_products returns an empty     *)
(* list and raises nothing to its caller.                                  *)
C26_ErrorsGiveEmptyList ==
    \A c \in Callers :
        /\ lookup[c].pc # "raised"
        /\ (lookup[c].pc = "done" /\ lookup[c].failed) => lookup[c].ret = <<>>

(* C26 happens: a lookup whose request failed has returned the empty list, *)
(* after one that returned rows.                                           *)
C26_Witness ==
    \E c \in Callers :
        /\ lookup[c].pc = "done" /\ lookup[c].failed /\ lookup[c].ret = <<>>
        /\ Len(served) = 2 /\ ~served[2].hit
        /\ served[1].cache_key # served[2].cache_key
        /\ Present(served[1].cache_key)
        /\ _category_products_cache[served[1].cache_key].results # <<>>

(* ---------------------------------------------------------- the bulk path *)
(* C27: crawl(urls) on an initialised pool returns a list with exactly one *)
(* result per input URL (len(results) == len(urls)).                       *)
(* It fails for a pool built with the default configuration, which sets    *)
(* stream=True (line 109): arun_many then returns an asynchronous          *)
(* generator, and crawl returns it as it is.                               *)
C27_Original ==
    \A c \in Callers :
        (call[c].op = "crawl" /\ call[c].pc = "done")
        => /\ call[c].ret_type = "list"
           /\ Len(call[c].ret) = Len(call[c].urls)
           /\ \A k \in 1..Len(call[c].urls) : call[c].ret[k].url = call[c].urls[k]

(* ---------------------------------------------------- concurrent lookups *)
(* The lookups suspended at the await of line 272.                         *)
Suspended == { c \in Callers : lookup[c].pc = "query" }

(* A step of the catalog cache is a step of one lookup: the cache and the  *)
(* access history change only when one caller goes from its call to the    *)
(* await or a return, or from the await to its return.                     *)
OneLookupSteps ==
    (<<_category_products_cache, _cache_access_history>>' #
         <<_category_products_cache, _cache_access_history>>)
    => \E c \in Callers :
          /\ lookup'[c].pc # lookup[c].pc \/ Len(served') = Len(served) + 1
          /\ \A o \in Callers \ {c} : lookup'[o] = lookup[o]

(* C28: however the lookups of several callers interleave at the await of  *)
(* the catalog query, a change of the cache and of the access history is   *)
(* one step of one lookup (the hit and its promotion; the eviction and the *)
(* insertion), and before and after every step the cache holds at most     *)
(* _max_cache_size entries and the access history lists exactly the stored *)
(* keys, each once.                                                        *)
C28_ConcurrentLookups ==
    [][/\ OneLookupSteps
       /\ Cardinality(DOMAIN _category_products_cache') <= _max_cache_size
       /\ NoDuplicates(_cache_access_history')
       /\ Range(_cache_access_history') = DOMAIN _category_products_cache']_vars

(* C28 happens: both callers were suspended at the query for the same key, *)
(* absent from a full cache; one has stored it, dropping the least         *)
(* recently used key, and the other is still suspended.                    *)
C28_Witness ==
    /\ Suspended = {2}
    /\ lookup[1].pc = "done" /\ lookup[1].queried
    /\ lookup[1].cache_key = lookup[2].cache_key
    /\ Len(served) = 4
    /\ Inserted(1, 4)
    /\ Cardinality(DOMAIN _category_products_cache) = _max_cache_size
    /\ ~Present(served[1].cache_key)
    /\ Present(lookup[2].cache_key)

(* ------------------------------------------------------------- the sweep *)
(* A step in which caller c enters get_category_products.                  *)
LookupOf(c) == \E k \in Keys : MissOf(c, k) \/ HitOf(c, k)

(* The key is stored and older than _cache_ttl at the time t.              *)
Stale(k, t) ==
    /\ k \in DOMAIN _category_products_cache
    /\ t - _category_products_cache[k].timestamp > _cache_ttl

(* The access history without the keys that are stale at the time t and    *)
(* without the key k.                                                      *)
KeptOrder(t, k) ==
    LET kept(x) == ~Stale(x, t) /\ x # k
    IN  SelectSeq(_cache_access_history, kept)

(* C29: every get_category_products call begins with the sweep: after the  *)
(* step no entry that was older than _cache_ttl when line 84 read the      *)
(* clock is left in the cache or in the access history, and every other    *)
(* entry has kept its rows, its timestamp and its place in the access      *)
(* history (the key of a hit apart, which the same step promotes).         *)
C29_SweepAtStart ==
    [][\A c \in Callers :
          LookupOf(c)
          => /\ \A k \in DOMAIN _category_products_cache :
                   IF Stale(k, now)
                   THEN /\ k \notin DOMAIN _category_products_cache'
                        /\ k \notin Range(_cache_access_history')
                   ELSE /\ k \in DOMAIN _category_products_cache'
                        /\ _category_products_cache'[k] = _category_products_cache[k]
             /\ DOMAIN _category_products_cache' \subseteq DOMAIN _category_products_cache
             /\ \A k \in Keys :
                   /\ MissOf(c, k) => _cache_access_history' = KeptOrder(now, "")
                   /\ HitOf(c, k)
                      => _cache_access_history' = Append(KeptOrder(now, k), k)]_vars

(* C29 happens: a lookup has swept the first of two entries, older than    *)
(* _cache_ttl, and kept the second, of age _cache_ttl.                     *)
C29_Witness ==
    /\ lookup[1].pc = "query"
    /\ Len(served) = 2 /\ Inserted(1, 2)
    /\ lookup[1].cache_key \notin {served[1].cache_key, served[2].cache_key}
    /\ ~Present(served[1].cache_key)
    /\ Present(served[2].cache_key)
    /\ now - served[2].at = _cache_ttl
    /\ _cache_access_history = <<served[2].cache_key>>

(* ----------------------------------------------------------------------- *)
(* C30.  The cached phase of crawl_fastest loads the cached URLs in        *)
(* batches of at most batch_size: at most batch_size load tasks exist that *)
(* were created and not awaited, the tasks of a batch are created only     *)
(* when every URL of the batches before it has been awaited, and once      *)
(* count valid results have accumulated no further cached result is        *)
(* classified and no further batch is started.                             *)
(* ----------------------------------------------------------------------- *)
BoundedBatches ==
    \A c \in Callers :
        /\ Cardinality(call[c].batch_tasks) <= batch_size
        /\ call[c].pc = "cached" =>
               /\ call[c].batch_tasks \subseteq
                      Range(SubSeq(call[c].urls_with_cache, call[c].i + 1,
                                   Min(call[c].i + batch_size,
                                       Len(call[c].urls_with_cache))))
               /\ Range(SubSeq(call[c].urls_with_cache, 1, call[c].i))
                      \subseteq Range(call[c].loaded)

StopsWhenEnough(c) ==
    (/\ call[c].pc \in {"body", "cached"}
     /\ CachedEnough(call[c].valid_results, call[c].count))
    => /\ call'[c].loaded = call[c].loaded
       /\ call'[c].batch_tasks \subseteq call[c].batch_tasks

C30_Original ==
    [][BoundedBatches' /\ \A c \in Callers : StopsWhenEnough(c)]_vars

(* ----------------------------------------------------------------------- *)
(* C31.  The content cache never expires: no step takes a name out of the  *)
(* presence index, and a crawl_fastest call starts no fetch task for a URL *)
(* whose name was in the index and whose record loaded when the call       *)
(* partitioned its input, whatever earlier calls left in the directory.    *)
(* ----------------------------------------------------------------------- *)
C31_CacheNeverExpires ==
    [][/\ cache_files_map \subseteq cache_files_map'
       /\ \A c \in Callers :
             Partitioned(c)'
             => \A u \in call'[c].cached_at_start :
                   /\ task'[c][u].st = "none"
                   /\ u \notin Range(call'[c].started)]_vars

(* C31 happens: a was cached and b was not; the call loaded a, fetched b   *)
(* alone and stored it, and the index holds both names.                    *)
C31_Witness ==
    \E c \in Callers :
        /\ FastestDone(c) /\ call[c].urls = <<"a", "b">>
        /\ call[c].cached_at_start = {"a"}
        /\ call[c].started = <<"b">>
        /\ task[c]["a"].st = "none"
        /\ task[c]["b"].kind = "ok"
        /\ CacheResults(c, "a") # {}
        /\ { cache_filename(md5(u)) : u \in {"a", "b"} } \subseteq cache_files_map

(* ----------------------------------------------------------------------- *)
(* C32 as stated: the word_count given to a text does not depend on where  *)
(* the text came from: a result loaded from the cache carries the          *)
(* word_count of the fetched result with the same URL and text.            *)
(* ----------------------------------------------------------------------- *)
C32_Original ==
    \A c, d \in Callers :
        \A i \in 1..Len(call[c].all_results), j \in 1..Len(call[d].all_results) :
            LET live == call[c].all_results[i]
                cached == call[d].all_results[j]
            IN  (/\ ~live.from_cache /\ cached.from_cache
                 /\ live.url = cached.url
                 /\ live.markdown = cached.markdown)
                => cached.word_count = live.word_count

(* ----------------------------------------------------------------------- *)
(* C33 as stated: the pool never holds more than n_crawlers workers,       *)
(* whoever runs init() and however often.                                  *)
(* ----------------------------------------------------------------------- *)
C33_Original == Len(crawlers) <= n_crawlers

(* The workers held by a call in progress: checked out, not checked in.    *)
HeldWorkers ==
    { call[c].crawler :
        c \in { d \in Callers : call[d].holding /\ call[d].pc \notin {"done", "raised"} } }

(* ----------------------------------------------------------------------- *)
(* C34 as stated: available_crawlers holds no worker twice and only        *)
(* workers of the pool, and the available workers and the workers held by  *)
(* the calls in progress are, together, exactly the workers the pool has   *)
(* created.                                                                *)
(* ----------------------------------------------------------------------- *)
C34_Original ==
    /\ NoDuplicates(available_crawlers)
    /\ Range(available_crawlers) \subseteq Range(crawlers)
    /\ Range(available_crawlers) \cap HeldWorkers = {}
    /\ Range(available_crawlers) \cup HeldWorkers = Range(crawlers)

(* ----------------------------------------------------------------------- *)
(* C35 as stated: when crawl_fastest checks its worker in, by returning or *)
(* with an exception or the caller's cancellation leaving the race loop,   *)
(* none of the fetch tasks the call started on the worker is still         *)
(* running.                                                                *)
(* ----------------------------------------------------------------------- *)
C35_Original ==
    [][\A c \in Callers :
          (call[c].op = "crawl_fastest" /\ call[c].holding /\ ~call'[c].holding)
          => \A u \in Range(call[c].started) :
                task'[c][u].st \notin {"running", "cancelling"}]_vars

(* ----------------------------------------------------------------------- *)
(* C36.  What crawl_fastest returns is well formed: at most max(count, 0)  *)
(* entries, each for a URL of the input, and no two for the same URL,      *)
(* whether they come from the cached phase or from the race.               *)
(* ----------------------------------------------------------------------- *)
C36_ResultWellFormed ==
    \A c \in Callers :
        FastestDone(c)
        => /\ Len(call[c].ret) <= Max(call[c].count, 0)
           /\ \A i \in 1..Len(call[c].ret) : call[c].ret[i].url \in InputUrls(c)
           /\ NoDuplicates([i \in 1..Len(call[c].ret) |-> call[c].ret[i].url])
           /\ NoDuplicates([i \in 1..Len(call[c].all_results) |->
                               call[c].all_results[i].url])

(* C36 happens: of two URLs one was loaded from the cache and one fetched, *)
(* more results were asked for than the input has URLs, and the call       *)
(* returned one entry for each.                                            *)
C36_Witness ==
    \E c \in Callers :
        /\ FastestDone(c) /\ call[c].urls = <<"a", "b">> /\ call[c].count = 2
        /\ Len(call[c].ret) = 2
        /\ call[c].ret[1].url # call[c].ret[2].url
        /\ \E i, j \in 1..2 : call[c].ret[i].from_cache /\ ~call[c].ret[j].from_cache

(* ----------------------------------------------------------------------- *)
(* C37.  A hit changes only the access order: the lookup does not query    *)
(* the catalog client, returns the stored rows, leaves the rows and the    *)
(* timestamp of the entry (and of every entry that stays) as they are, and *)
(* makes the key the most recent of the access history.  A timestamp is    *)
(* written only when a query is stored, so a hit happens only within       *)
(* _cache_ttl of the insertion, whatever hits came in between.             *)
(* ----------------------------------------------------------------------- *)
C37_HitChangesOnlyOrder ==
    [][/\ \A c \in Callers, k \in Keys :
             HitOf(c, k)
             => /\ Present(k)
                /\ ~lookup'[c].queried
                /\ lookup'[c].ret = _category_products_cache[k].results
                /\ \A x \in DOMAIN _category_products_cache' :
                      /\ Present(x)
                      /\ _category_products_cache'[x] = _category_products_cache[x]
                /\ k \in DOMAIN _category_products_cache'
                /\ _cache_access_history' = Append(KeptOrder(now, k), k)
                /\ now' - _category_products_cache[k].timestamp < _cache_ttl
       /\ \A x \in DOMAIN _category_products_cache' :
             (Present(x) /\ _category_products_cache'[x] # _category_products_cache[x])
             => \E c \in Callers : StoreOf(c) /\ lookup[c].cache_key = x]_vars

(* C37 happens: a key was inserted, hit later, and looked up again within  *)
(* _cache_ttl of the hit but not of the insertion: the catalog was queried *)
(* again.                                                                  *)
C37_Witness ==
    /\ Len(served) = 3
    /\ \A m \in 1..3 : served[m].cache_key = served[1].cache_key
    /\ ~served[1].hit /\ served[2].hit /\ ~served[3].hit
    /\ served[2].at > served[1].at
    /\ served[3].at - served[2].at < _cache_ttl
    /\ served[3].at - served[1].at >= _cache_ttl

(* The key was stored with an empty list, by a query that found no record  *)
(* or failed, less than _cache_ttl before the time t.                      *)
StoredEmptyWithinTtl(k, t) ==
    \E i \in 1..Len(served) :
        /\ served[i].cache_key = k /\ ~served[i].hit /\ served[i].empty
        /\ t - served[i].at < _cache_ttl

(* The lookup of k by c returns the empty list from the cache.             *)
EmptyHit(c, k) ==
    HitOf(c, k) /\ lookup'[c].ret = <<>> /\ ~lookup'[c].queried

(* ----------------------------------------------------------------------- *)
(* C38 as stated: once a query for a key has returned no record or has     *)
(* failed, every lookup of the key less than _cache_ttl later returns the  *)
(* empty list without a query.                                             *)
(* ----------------------------------------------------------------------- *)
C38_Original ==
    [][\A c \in Callers, k \in Keys :
          ((MissOf(c, k) \/ HitOf(c, k)) /\ StoredEmptyWithinTtl(k, now'))
          => EmptyHit(c, k)]_vars

(* C38 amended: an empty list is stored like any other, with the time of   *)
(* the store, and every lookup of the key returns it without a query as    *)
(* long as the entry is younger than _cache_ttl and still stored: the      *)
(* inserts of other keys may have evicted it before.                       *)
C38_EmptyResultsCached ==
    [][\A c \in Callers, k \in Keys :
          /\ (StoreOf(c) /\ lookup[c].cache_key = k /\ lookup'[c].ret = <<>>)
             => /\ k \in DOMAIN _category_products_cache'
                /\ _category_products_cache'[k] = [results |-> <<>>, timestamp |-> now]
          /\ ((MissOf(c, k) \/ HitOf(c, k))
                /\ Present(k) /\ _category_products_cache[k].results = <<>>
                /\ now' - _category_products_cache[k].timestamp < _cache_ttl)
             => EmptyHit(c, k)]_vars

(* C38 happens: a query that failed was stored as the empty list, and the  *)
(* next lookup of the key, later and within _cache_ttl, returned it from   *)
(* the cache.                                                              *)
C38_Witness ==
    /\ Len(served) = 2
    /\ served[1].cache_key = served[2].cache_key
    /\ ~served[1].hit /\ served[1].empty
    /\ served[2].hit /\ served[2].empty
    /\ served[2].at > served[1].at
    /\ lookup[1].pc = "done" /\ lookup[1].ret = <<>> /\ ~lookup[1].queried

(* The get_pool calls that have returned a pool.                           *)
GotPool == { c \in Callers : call[c].op = "get_pool" /\ call[c].pc = "done" }

(* The callers whose call has run init() of the pool.                      *)
RanInit == { c \in Callers : \E k \in 1..MaxCrawlers : create[c][k] # "none" }

(* ----------------------------------------------------------------------- *)
(* C39 as stated: whatever the interleaving of concurrent get_pool calls,  *)
(* all of them get the same pool, init() of the pool is run exactly once,  *)
(* and get_pool returns the pool only when its init() has completed, never *)
(* before and never after it has failed.                                   *)
(* ----------------------------------------------------------------------- *)
C39_Original ==
    [][\A c \in Callers :
          (call[c].op # "get_pool" \/ call[c].pc # "done") /\ c \in GotPool'
          => /\ \A d \in GotPool' : call'[d].ret = call'[c].ret
             /\ Cardinality(RanInit') = 1
             /\ initialized']_vars
====
